---- MODULE Spec2Model ----
(***************************************************************************)
(* Run orchestrator of the OpenCode Azure DevOps task: runCommand          *)
(* (src/src/command.ts) and runCodeReview (src/src/code-review.ts), with   *)
(* the helpers of src/src/common.ts and src/src/opencode.ts they call.     *)
(* One run is modelled from the call of the mode runner to its return or   *)
(* raise; every awaited call that can reject may fail.  resolveRunConfig   *)
(* (src/src/common.ts) is a second entry point of Spec, and SpecFn calls   *)
(* the pure functions (trigger resolver, sendPrompt, resolveAgent,         *)
(* getFileDiffHunk) on their own.  In Spec the event-stream reader is      *)
(* started and never scheduled; SpecStream runs it beside the mode runner. *)
(***************************************************************************)
EXTENDS Integers, Sequences, FiniteSets, TLC

(* ------------------------------ bounds ---------------------------------- *)
\* Largest comment id the pull-request API hands out for a new reply.
MaxCommentId == 3

\* Largest number of fragments a comment text is put together from.
MaxPieces == 3

\* Largest number of parts in a prompt response.
MaxParts == 3

\* Largest number of hunks in a file diff.
MaxHunks == 2

\* Largest number of lines the subprocess sends on the event stream in one run.
MaxLines == 1

(* ------------------------- program constants ---------------------------- *)
CONNECTION_MAX_RETRIES == 30

\* createPullRequestThread: statusMap.active, statusMap.fixed
STATUS_ACTIVE == 1
STATUS_FIXED == 2

REVIEW_TRIGGER_KEYWORDS ==
    << <<"/","o","c","-","r","e","v","i","e","w">>,
       <<"/","o","p","e","n","c","o","d","e","-","r","e","v","i","e","w">> >>
COMMAND_TRIGGER_KEYWORDS ==
    << <<"/","o","c">>, <<"/","o","p","e","n","c","o","d","e">> >>

(* --------------------------- pure helpers ------------------------------- *)
\* String.prototype.toLowerCase, one character
LowerChar(ch) ==
    CASE ch = "O" -> "o"
      [] ch = "C" -> "c"
      [] ch = "R" -> "r"
      [] OTHER -> ch

\* variant of toLowerCase that leaves the text as written
toLowerCase_identity(s) == s

toLowerCase(s) == [i \in 1..Len(s) |-> LowerChar(s[i])]

\* String.prototype.includes
includes(s, k) ==
    \E i \in 0..(Len(s) - Len(k)) : SubSeq(s, i + 1, i + Len(k)) = k

includesAnyKeyword(content, keywords) ==
    LET lowerContent == toLowerCase(content)
    IN  \E j \in 1..Len(keywords) : includes(lowerContent, keywords[j])

\* variant of validateTrigger whose command branch does not look for review
\* keywords
validateTrigger_noCrossCheck(content, m) ==
    LET hasReview == includesAnyKeyword(content, REVIEW_TRIGGER_KEYWORDS)
        hasCommand == includesAnyKeyword(content, COMMAND_TRIGGER_KEYWORDS)
    IN  IF m = "review"
        THEN IF ~hasReview THEN "no-review-keyword" ELSE "ok"
        ELSE IF ~hasCommand THEN "no-command-keyword"
             ELSE "ok"

\* validateTrigger: "ok" when it returns, otherwise the error it throws
validateTrigger(content, m) ==
    LET hasReview == includesAnyKeyword(content, REVIEW_TRIGGER_KEYWORDS)
        hasCommand == includesAnyKeyword(content, COMMAND_TRIGGER_KEYWORDS)
    IN  IF m = "review"
        THEN IF ~hasReview THEN "no-review-keyword" ELSE "ok"
        ELSE IF hasReview THEN "contains-review-trigger"
             ELSE IF ~hasCommand THEN "no-command-keyword"
             ELSE "ok"

\* variant of detectModeFromComment that tests the command keywords first
detectModeFromComment_commandFirst(content) ==
    IF includesAnyKeyword(content, COMMAND_TRIGGER_KEYWORDS) THEN "command"
    ELSE IF includesAnyKeyword(content, REVIEW_TRIGGER_KEYWORDS) THEN "review"
    ELSE ""

\* detectModeFromComment: "" stands for null
detectModeFromComment(content) ==
    IF includesAnyKeyword(content, REVIEW_TRIGGER_KEYWORDS) THEN "review"
    ELSE IF includesAnyKeyword(content, COMMAND_TRIGGER_KEYWORDS) THEN "command"
    ELSE ""

\* resolveModeFromComment: the mode it returns, or the error it throws;
\* triggerContext is the set holding the comment found ({} when there is none)
resolveModeFromComment(tc, explicitMode) ==
    IF explicitMode # ""
    THEN [mode |-> explicitMode, error |-> ""]
    ELSE IF tc = {}
    THEN [mode |-> "", error |-> "cannot-infer-mode-without-trigger-comment"]
    ELSE LET inferred == detectModeFromComment((CHOOSE c \in tc : TRUE).content)
         IN  IF inferred = ""
             THEN [mode |-> "", error |-> "could-not-infer-execution-mode"]
             ELSE [mode |-> inferred, error |-> ""]

\* getCommentFooter: empty without a build id
getCommentFooter(bid) == IF bid = "" THEN "" ELSE "Pipeline: Build #" \o bid

(* --------------------------- input domains ------------------------------ *)
\* Trigger comment texts: "/oc fix", "/OC-Review", "hi", "/OC x"
TriggerComments ==
    { <<"/","o","c"," ","f","i","x">>,
      <<"/","O","C","-","R","e","v","i","e","w">>,
      <<"h","i">>,
      <<"/","O","C"," ","x">> }

\* The thread and the comment a comment-activated run is started from
ThreadIds == {7}
CommentIds == {1}

\* Ids the agent subprocess gives a new session
SessionIds == {"ses_1", "ses_2"}

\* workspacePath values: the empty string and a directory
WorkspacePaths == { <<>>, <<"ws">> }
repositoryId == "repo"

\* cloneRepo: workspaceDir = `${workspacePath}/${repositoryId}`
WorkspaceDir(wp) == Append(wp, repositoryId)

\* whether path p lies in (or is) directory d
IsUnder(p, d) == Len(p) >= Len(d) /\ SubSeq(p, 1, Len(d)) = d

\* fs.rm(d, {recursive: true, force: true}) when it succeeds
RemoveTree(files, d) == {p \in files : ~IsUnder(p, d)}

\* Resolved configurations: resolveRunConfig fills thread and comment exactly
\* when both ids are given (one id alone is kept in the context, without
\* thread or comment); an id of 0 stands for undefined
Configs ==
    { c \in [mode : {"command", "review"},
             hasTrigger : BOOLEAN,
             threadId : ThreadIds \cup {0},
             commentId : CommentIds \cup {0},
             content : TriggerComments \cup {<<>>},
             skipClone : BOOLEAN,
             workspacePath : WorkspacePaths,
             buildId : {"", "42"}] :
        /\ c.hasTrigger <=> (c.content # <<>>)
        /\ c.hasTrigger <=> (c.threadId # 0 /\ c.commentId # 0) }

\* the comments of the trigger thread before the run
TriggerThread(c) ==
    IF c.hasTrigger
    THEN {[id |-> c.commentId, threadId |-> c.threadId, parentCommentId |-> 0,
           content |-> c.content]}
    ELSE {}

\* RunConfig values resolveRunConfig is called with; "" and 0 are undefined
RunConfigs ==
    [mode : {"", "command", "review"},
     project : {"", "proj"},
     repositoryId : {"", repositoryId},
     threadId : ThreadIds \cup {0},
     commentId : CommentIds \cup {0},
     skipClone : BOOLEAN,
     workspacePath : WorkspacePaths,
     buildId : {"", "42"}]

\* the comments the pull request holds when resolveRunConfig is called:
\* the thread with one comment, or no such comment
PullRequestComments ==
    {{}} \cup
    { {[id |-> cid, threadId |-> tid, parentCommentId |-> 0, content |-> t]} :
        cid \in CommentIds, tid \in ThreadIds, t \in TriggerComments }

\* values of the variables an operation does not use
NoRunConfig ==
    [mode |-> "", project |-> "", repositoryId |-> "", threadId |-> 0,
     commentId |-> 0, skipClone |-> FALSE, workspacePath |-> <<>>, buildId |-> ""]
NoConfig ==
    [mode |-> "", hasTrigger |-> FALSE, threadId |-> 0, commentId |-> 0,
     content |-> <<>>, skipClone |-> FALSE, workspacePath |-> <<>>, buildId |-> ""]
NoCall == [fn |-> "", args |-> <<>>]

VARIABLES
    reader,              \* the event-stream reader: "none", "connecting", "reading", "ended"
    received,            \* the lines the subprocess has sent on the event stream
    partial,             \* the line whose first bytes came in the last chunk, <<>> if none
    rendered,            \* the events the reader has printed, in order
    prompts,             \* the prompt requests answered so far: session and status
    commits,             \* the messages of the commits the run has made
    runConfig,           \* the RunConfig resolveRunConfig was called with
    triggerContext,      \* const triggerContext: the comment found, {} if none
    call,                \* the pure function under evaluation and its arguments
    ret,                 \* what that function returned, <<>> before it returns
    config,              \* the ResolvedRunConfig: the runner's argument
    pc,                  \* position of the run in runCommand / runCodeReview
    opencode,            \* let opencode: TRUE once the instance is assigned
    workspace,           \* let workspace: <<>> is null
    cleanupWorkspaceDir, \* let cleanupWorkspaceDir (runCodeReview)
    replyCommentId,      \* replyComment.id / replyCommentId: 0 is null
    session,             \* sessionResp.data.id: "" before session.create
    response,            \* const response, "" before the prompt returned
    summary,             \* const summary (runCommand)
    attempt,             \* loop counter of waitForConnection, 0 outside the call
    fetch,               \* the requests under Promise.all
    err,                 \* the error propagating out of try / catch, "" if none
    outcome,             \* "running", "returned" or "raised"
    prComments,          \* replies on the pull request written through the API
    prThreads,           \* threads created through the API
    fs,                  \* directories that exist on disk
    proc,                \* the agent subprocess: "none", "running", "killed"
    dirty,               \* git status --porcelain would print something
    failed,              \* the steps that failed so far, in order
    log                  \* side effects of the run, in order

vars == <<reader, received, partial, rendered, prompts, commits, runConfig, triggerContext, call, ret, config, pc, opencode, workspace, cleanupWorkspaceDir, replyCommentId,
          session, response, summary, attempt, fetch, err, outcome, prComments,
          prThreads, fs, proc, dirty, failed, log>>

FetchNames == {"pr", "iterations", "threads"}

\* a mode runner is called with a resolved configuration
InitRunner ==
    /\ runConfig = NoRunConfig
    /\ triggerContext = {}
    /\ call = NoCall
    /\ ret = <<>>
    /\ config \in Configs
    /\ pc = "start"
    /\ reader = "none"
    /\ received = <<>>
    /\ partial = <<>>
    /\ rendered = <<>>
    /\ prompts = <<>>
    /\ commits = <<>>
    /\ opencode = FALSE
    /\ workspace = <<>>
    /\ cleanupWorkspaceDir = FALSE
    /\ replyCommentId = 0
    /\ session = ""
    /\ response = ""
    /\ summary = ""
    /\ attempt = 0
    /\ fetch = [f \in FetchNames |-> "idle"]
    /\ err = ""
    /\ outcome = "running"
    /\ prComments = TriggerThread(config)
    /\ prThreads = <<>>
    /\ fs \in { {}, {<<"ws">>, WorkspaceDir(<<"ws">>)} }
    /\ proc = "none"
    /\ dirty = FALSE
    /\ failed = <<>>
    /\ log = <<>>

\* the variables of a mode run before the run has begun
RunnerIdle ==
    /\ reader = "none"
    /\ received = <<>>
    /\ partial = <<>>
    /\ rendered = <<>>
    /\ prompts = <<>>
    /\ commits = <<>>
    /\ opencode = FALSE
    /\ workspace = <<>>
    /\ cleanupWorkspaceDir = FALSE
    /\ replyCommentId = 0
    /\ session = ""
    /\ response = ""
    /\ summary = ""
    /\ attempt = 0
    /\ fetch = [f \in FetchNames |-> "idle"]
    /\ err = ""
    /\ outcome = "running"
    /\ prThreads = <<>>
    /\ fs = {<<"ws">>, WorkspaceDir(<<"ws">>)}
    /\ proc = "none"
    /\ dirty = FALSE
    /\ failed = <<>>
    /\ log = <<>>

\* resolveRunConfig is called with a RunConfig
InitResolve ==
    /\ runConfig \in RunConfigs
    /\ triggerContext = {}
    /\ call = NoCall
    /\ ret = <<>>
    /\ config = NoConfig
    /\ pc = "resolveRunConfig"
    /\ prComments \in PullRequestComments
    /\ RunnerIdle

Init == InitRunner \/ InitResolve

footer == getCommentFooter(config.buildId)

\* const commentTrigger = !comment  (runCodeReview; TRUE means headless)
commentTrigger == ~config.hasTrigger

\* a rejected await inside the try block: control goes to the catch clause
Throw(step, e) ==
    /\ err' = e
    /\ failed' = Append(failed, [step |-> step, error |-> e])
    /\ pc' = "catch"

(* --------------------------- resolveRunConfig --------------------------- *)
StreamVars == <<reader, received, partial, rendered>>

RunnerVars == <<StreamVars, prompts, commits, opencode, workspace, cleanupWorkspaceDir, replyCommentId, session,
                response, summary, attempt, fetch, outcome, prThreads, fs, proc,
                dirty, failed>>

\* a throw out of resolveRunConfig: the returned promise rejects
Reject(e) ==
    /\ err' = e
    /\ pc' = "rejected"

\* const hasTriggerIds = threadId !== undefined && commentId !== undefined
hasTriggerIds == runConfig.threadId # 0 /\ runConfig.commentId # 0

\* const explicitMode = config.mode !== undefined
explicitMode == runConfig.mode # ""

\* variant of ResolveRunConfig that asks for the thread before it looks at
\* the mode
ResolveRunConfig_fetchFirst ==
    /\ pc = "resolveRunConfig"
    /\ IF runConfig.project = ""
       THEN Reject("Repository project is required to run the task.")
       ELSE IF runConfig.repositoryId = ""
       THEN Reject("Repository ID is required to run the task.")
       ELSE IF hasTriggerIds \/ ~explicitMode
       THEN pc' = "getThread" /\ UNCHANGED err
       ELSE pc' = "resolveMode" /\ UNCHANGED err
    /\ UNCHANGED <<runConfig, triggerContext, call, ret, config, prComments, log,
                   RunnerVars>>

\* resolveRunConfig up to its first await: the project and repository id
\* checks and the branch on hasTriggerIds
ResolveRunConfig ==
    /\ pc = "resolveRunConfig"
    /\ IF runConfig.project = ""
       THEN Reject("Repository project is required to run the task.")
       ELSE IF runConfig.repositoryId = ""
       THEN Reject("Repository ID is required to run the task.")
       ELSE IF hasTriggerIds
       THEN pc' = "getThread" /\ UNCHANGED err
       ELSE IF ~explicitMode
       THEN Reject("threadId and commentId inputs are required when 'mode' is not specified")
       ELSE pc' = "resolveMode" /\ UNCHANGED err
    /\ UNCHANGED <<runConfig, triggerContext, call, ret, config, prComments, log,
                   RunnerVars>>

\* thread = await getPullRequestThread(...); comment = thread.comments.find(...)
GetPullRequestThread ==
    /\ pc = "getThread"
    /\ log' = Append(log, "getPullRequestThread")
    /\ \/ /\ Reject("getPullRequestThread-failed")
          /\ UNCHANGED triggerContext
       \/ LET found == {c \in prComments : /\ c.threadId = runConfig.threadId
                                            /\ c.id = runConfig.commentId}
          IN  IF found = {}
              THEN Reject("comment-not-found-in-thread") /\ UNCHANGED triggerContext
              ELSE /\ triggerContext' = found
                   /\ pc' = "resolveMode"
                   /\ UNCHANGED err
    /\ UNCHANGED <<runConfig, call, ret, config, prComments, RunnerVars>>

\* const mode = await resolveModeFromComment(triggerContext, config.mode);
\* with an explicit mode the function returns config with that mode at once
ResolveModeFromComment_alwaysValidate ==
    /\ pc = "resolveMode"
    /\ LET r == resolveModeFromComment(triggerContext, runConfig.mode)
       IN  IF r.error # ""
           THEN Reject(r.error) /\ UNCHANGED <<config, log>>
           ELSE /\ config' = [NoConfig EXCEPT !.mode = r.mode]
                /\ log' = Append(log, "resolveModeFromComment")
                /\ pc' = "validateResolved"
                /\ UNCHANGED err
    /\ UNCHANGED <<runConfig, triggerContext, call, ret, prComments, RunnerVars>>

\* the ResolvedRunConfig returned: { ...config, mode, triggerContext }
Resolved(m) ==
    [mode |-> m,
     hasTrigger |-> triggerContext # {},
     threadId |-> runConfig.threadId,
     commentId |-> runConfig.commentId,
     content |-> IF triggerContext = {} THEN <<>>
                 ELSE (CHOOSE c \in triggerContext : TRUE).content,
     skipClone |-> runConfig.skipClone,
     workspacePath |-> runConfig.workspacePath,
     buildId |-> runConfig.buildId]

ResolveModeFromComment ==
    /\ pc = "resolveMode"
    /\ LET r == resolveModeFromComment(triggerContext, runConfig.mode)
       IN  IF r.error # ""
           THEN Reject(r.error) /\ UNCHANGED <<config, log>>
           ELSE /\ log' = Append(log, "resolveModeFromComment")
                /\ IF explicitMode
                   THEN /\ config' = Resolved(r.mode)
                        /\ pc' = "resolved"
                        /\ UNCHANGED err
                   ELSE /\ config' = [NoConfig EXCEPT !.mode = r.mode]
                        /\ pc' = "validateResolved"
                        /\ UNCHANGED err
    /\ UNCHANGED <<runConfig, triggerContext, call, ret, prComments, RunnerVars>>

\* if (!explicitMode): the comment must exist and validateTrigger must pass;
\* then the resolved configuration is returned
ValidateResolvedTrigger ==
    /\ pc = "validateResolved"
    /\ log' = Append(log, "validateTrigger")
    /\ IF triggerContext = {}
       THEN Reject("cannot-validate-without-trigger-comment") /\ UNCHANGED config
       ELSE LET r == validateTrigger((CHOOSE c \in triggerContext : TRUE).content,
                                     config.mode)
            IN  IF r # "ok"
                THEN Reject(r) /\ UNCHANGED config
                ELSE /\ config' = Resolved(config.mode)
                     /\ pc' = "resolved"
                     /\ UNCHANGED err
    /\ UNCHANGED <<runConfig, triggerContext, call, ret, prComments, RunnerVars>>

(* ------------------------------ entry ----------------------------------- *)
\* variant of RunCommand without the thread / comment guard
RunCommand_noGuard ==
    /\ pc = "start"
    /\ config.mode = "command"
    /\ pc' = "assert"
    /\ UNCHANGED <<StreamVars, prompts, commits, runConfig, triggerContext, call, ret,
                   config, opencode, workspace,
                   cleanupWorkspaceDir, replyCommentId, session, response, summary,
                   attempt, fetch, outcome, err, prComments, prThreads, fs, proc,
                   dirty, failed, log>>

\* if (!thread || !comment || !threadId || !commentId) throw
RunCommand ==
    /\ pc = "start"
    /\ config.mode = "command"
    /\ IF ~config.hasTrigger \/ config.threadId = 0 \/ config.commentId = 0
       THEN /\ pc' = "done"
            /\ outcome' = "raised"
            /\ err' = "command-mode-requires-thread-and-comment"
       ELSE /\ pc' = "assert"
            /\ UNCHANGED <<outcome, err>>
    /\ UNCHANGED <<StreamVars, prompts, commits, runConfig, triggerContext, call, ret,
                   config, opencode, workspace, cleanupWorkspaceDir, replyCommentId,
                   session, response, summary, attempt, fetch, prComments,
                   prThreads, fs, proc, dirty, failed, log>>

\* runCodeReview enters its try block unconditionally
RunCodeReview ==
    /\ pc = "start"
    /\ config.mode = "review"
    /\ pc' = "assert"
    /\ UNCHANGED <<StreamVars, prompts, commits, runConfig, triggerContext, call, ret,
                   config, opencode, workspace, cleanupWorkspaceDir, replyCommentId,
                   session, response, summary, attempt, fetch, err, outcome,
                   prComments, prThreads, fs, proc, dirty, failed, log>>

(* ------------------------- steps of the try block ----------------------- *)
AssertOpencodeInstalled ==
    /\ pc = "assert"
    /\ log' = Append(log, "version-probe")      \* exec("opencode --version")
    /\ \/ /\ pc' = IF config.mode = "review" /\ commentTrigger THEN "fetch" ELSE "validate"
          /\ UNCHANGED <<err, failed>>
       \/ Throw("assert", "opencode-not-installed")
    /\ UNCHANGED <<StreamVars, prompts, commits, runConfig, triggerContext, call, ret,
                   config, opencode, workspace, cleanupWorkspaceDir, replyCommentId,
                   session, response, summary, attempt, fetch, outcome,
                   prComments, prThreads, fs, proc, dirty>>

AnnounceText == IF config.mode = "command" THEN "Working on it..." ELSE "Reviewing pull request..."

\* ids the API can give the new reply: any id no comment of the thread has yet
NewCommentIds ==
    {i \in 1..MaxCommentId : i \notin CommentIds /\ \A c \in prComments : c.id # i}

\* variant of ValidateTrigger that relies on resolveRunConfig having validated:
\* the runner checks nothing
ValidateTrigger_trustResolver ==
    /\ pc = "validate"
    /\ pc' = "announce"
    /\ UNCHANGED <<StreamVars, prompts, commits, runConfig, triggerContext, call, ret,
                   config, opencode, workspace, cleanupWorkspaceDir, replyCommentId,
                   session, response, summary, attempt, fetch, outcome,
                   prComments, prThreads, fs, proc, dirty, log, err, failed>>

\* variant of ValidateTrigger placed after the announce step: the reply has
\* been posted when the trigger is found invalid
ValidateTrigger_afterAnnounce ==
    /\ pc = "validate"
    /\ LET r == validateTrigger(config.content, config.mode)
       IN  IF r = "ok"
           THEN pc' = "announce" /\ UNCHANGED <<err, failed, prComments, replyCommentId>>
           ELSE /\ Throw("validate", r)
                /\ \E id \in NewCommentIds :
                     /\ prComments' = prComments \cup
                            {[id |-> id, threadId |-> config.threadId,
                              parentCommentId |-> config.commentId,
                              content |-> <<AnnounceText, footer>>]}
                     /\ replyCommentId' = id
    /\ UNCHANGED <<StreamVars, prompts, commits, runConfig, triggerContext, call, ret,
                   config, opencode, workspace,
                   cleanupWorkspaceDir, session, response, summary, attempt, fetch,
                   outcome, prThreads, fs, proc, dirty, log>>

\* variant of ValidateTrigger that goes on to the fetches without the announce
ValidateTrigger_skipAnnounce ==
    /\ pc = "validate"
    /\ LET r == validateTrigger(config.content, config.mode)
       IN  IF r = "ok"
           THEN pc' = "fetch" /\ UNCHANGED <<err, failed>>
           ELSE Throw("validate", r)
    /\ UNCHANGED <<StreamVars, prompts, commits, runConfig, triggerContext, call, ret,
                   config, opencode, workspace, cleanupWorkspaceDir, replyCommentId,
                   session, response, summary, attempt, fetch, outcome,
                   prComments, prThreads, fs, proc, dirty, log>>

\* validateTrigger(comment.content, <own mode>)
ValidateTrigger ==
    /\ pc = "validate"
    /\ LET r == validateTrigger(config.content, config.mode)
       IN  IF r = "ok"
           THEN pc' = "announce" /\ UNCHANGED <<err, failed>>
           ELSE Throw("validate", r)
    /\ UNCHANGED <<StreamVars, prompts, commits, runConfig, triggerContext, call, ret,
                   config, opencode, workspace, cleanupWorkspaceDir, replyCommentId,
                   session, response, summary, attempt, fetch, outcome,
                   prComments, prThreads, fs, proc, dirty, log>>

\* addPullRequestComment(..., threadId, pat, `<announce>${footer}`, commentId)
AddPullRequestComment ==
    /\ pc = "announce"
    /\ \/ \E id \in NewCommentIds :
            /\ prComments' = prComments \cup
                   {[id |-> id, threadId |-> config.threadId,
                     parentCommentId |-> config.commentId,
                     content |-> <<AnnounceText, footer>>]}
            /\ replyCommentId' = id
            /\ log' = Append(log, "announce")
            /\ pc' = "fetch"
            /\ UNCHANGED <<err, failed>>
       \/ /\ Throw("announce", "announce-request-failed")
          /\ UNCHANGED <<prComments, replyCommentId, log>>
    /\ UNCHANGED <<StreamVars, prompts, commits, runConfig, triggerContext, call, ret,
                   config, opencode, workspace, cleanupWorkspaceDir,
                   session, response, summary, attempt, fetch, outcome,
                   prThreads, fs, proc, dirty>>

\* Promise.all([getPullRequest, getPullRequestIterations, getPullRequestThreads]):
\* the three requests are issued together
StartFetches ==
    /\ pc = "fetch"
    /\ fetch' = [f \in FetchNames |-> "pending"]
    /\ pc' = "join"
    /\ UNCHANGED <<StreamVars, prompts, commits, runConfig, triggerContext, call, ret,
                   config, opencode, workspace, cleanupWorkspaceDir, replyCommentId,
                   session, response, summary, attempt, err, outcome,
                   prComments, prThreads, fs, proc, dirty, failed, log>>

\* one of the requests settles, whatever the run is doing by then
CompleteFetch ==
    /\ \E f \in FetchNames :
          /\ fetch[f] = "pending"
          /\ \E r \in {"ok", "failed"} : fetch' = [fetch EXCEPT ![f] = r]
    /\ UNCHANGED <<StreamVars, prompts, commits, runConfig, triggerContext, call, ret,
                   config, pc, opencode, workspace, cleanupWorkspaceDir, replyCommentId,
                   session, response, summary, attempt, err, outcome,
                   prComments, prThreads, fs, proc, dirty, failed, log>>

\* Promise.all fulfils when every request has fulfilled
JoinFetches ==
    /\ pc = "join"
    /\ \A f \in FetchNames : fetch[f] = "ok"
    /\ pc' = "changes"
    /\ UNCHANGED <<StreamVars, prompts, commits, runConfig, triggerContext, call, ret,
                   config, opencode, workspace, cleanupWorkspaceDir, replyCommentId,
                   session, response, summary, attempt, fetch, err, outcome,
                   prComments, prThreads, fs, proc, dirty, failed, log>>

\* Promise.all rejects as soon as one request has rejected
RejectFetches ==
    /\ pc = "join"
    /\ \E f \in FetchNames : fetch[f] = "failed"
    /\ Throw("fetch", "pull-request-fetch-failed")
    /\ UNCHANGED <<StreamVars, prompts, commits, runConfig, triggerContext, call, ret,
                   config, opencode, workspace, cleanupWorkspaceDir, replyCommentId,
                   session, response, summary, attempt, fetch, outcome,
                   prComments, prThreads, fs, proc, dirty, log>>

GetPullRequestIterationChanges ==
    /\ pc = "changes"
    /\ \/ /\ pc' = IF config.mode = "command" THEN "clone"
                   ELSE IF config.skipClone THEN "skipclone" ELSE "preclean"
          /\ UNCHANGED <<err, failed>>
       \/ Throw("changes", "iteration-changes-failed")
    /\ UNCHANGED <<StreamVars, prompts, commits, runConfig, triggerContext, call, ret,
                   config, opencode, workspace, cleanupWorkspaceDir, replyCommentId,
                   session, response, summary, attempt, fetch, outcome,
                   prComments, prThreads, fs, proc, dirty, log>>

(* ----------------------------- workspace -------------------------------- *)
\* variant of cleanupWorkspace without the catch clause: a failed fs.rm escapes
cleanupWorkspace_rethrow(rmOk) == IF rmOk THEN "returned" ELSE "raised"

\* cleanupWorkspace: how the call ends, given whether fs.rm succeeded.
\* The catch clause logs the failure and returns.
cleanupWorkspace(rmOk) == "returned"

\* await fs.rm(workspace, { recursive: true, force: true }) on the directories
\* `files`: with force a missing directory is no error; fs.rm("") removes nothing
rm(files, d, rmOk) == IF rmOk /\ d # <<>> THEN RemoveTree(files, d) ELSE files

\* the directories left after cleanupWorkspace(d)
AfterRm(d, rmOk) == rm(fs, d, rmOk)

\* variant of cleanupWorkspaceOn whose removal is not forced and not guarded:
\* a directory that is not there makes the call raise
cleanupWorkspaceOn_noForce(files, d, rmOk) ==
    [fs |-> rm(files, d, rmOk),
     outcome |-> IF rmOk /\ d \in files THEN "returned" ELSE "raised"]

\* cleanupWorkspace(d) called when the directories are `files`: what it leaves
\* and how it ends
cleanupWorkspaceOn(files, d, rmOk) ==
    [fs |-> rm(files, d, rmOk), outcome |-> cleanupWorkspace(rmOk)]

\* runCodeReview, skipClone branch: use the supplied path, clone nothing
UseExistingWorkspace ==
    /\ pc = "skipclone"
    /\ IF config.workspacePath = <<>>
       THEN /\ Throw("skipclone", "workspacePath-is-required")
            /\ UNCHANGED workspace
       ELSE /\ workspace' = config.workspacePath
            /\ pc' = "copyscript"
            /\ UNCHANGED <<err, failed>>
    /\ UNCHANGED <<StreamVars, prompts, commits, runConfig, triggerContext, call, ret,
                   config, opencode, cleanupWorkspaceDir, replyCommentId,
                   session, response, summary, attempt, fetch, outcome,
                   prComments, prThreads, fs, proc, dirty, log>>

\* runCodeReview, clone branch: await cleanupWorkspace(workspacePath)
PreCleanupWorkspace ==
    /\ pc = "preclean"
    /\ \E rmOk \in BOOLEAN :
          /\ fs' = AfterRm(config.workspacePath, rmOk)
          /\ log' = Append(log, IF rmOk THEN "preclean" ELSE "preclean-failed")
          /\ IF cleanupWorkspace(rmOk) = "returned"
             THEN pc' = "clone" /\ UNCHANGED <<err, failed>>
             ELSE Throw("preclean", "rm-failed")
    /\ UNCHANGED <<StreamVars, prompts, commits, runConfig, triggerContext, call, ret,
                   config, opencode, workspace, cleanupWorkspaceDir, replyCommentId,
                   session, response, summary, attempt, fetch, outcome,
                   prComments, prThreads, proc, dirty>>

\* variant of CloneRepo that swallows the failure of git clone and goes on
CloneRepo_ignoreFailure ==
    /\ pc = "clone"
    /\ \E ok \in BOOLEAN :
          /\ fs' = IF ok THEN fs \cup {WorkspaceDir(config.workspacePath)} ELSE fs
          /\ log' = Append(log, IF ok THEN "clone" ELSE "clone-failed")
    /\ workspace' = WorkspaceDir(config.workspacePath)
    /\ cleanupWorkspaceDir' = (config.mode = "review")
    /\ pc' = IF config.mode = "command" THEN "gitconfig" ELSE "copyscript"
    /\ UNCHANGED <<StreamVars, prompts, commits, runConfig, triggerContext, call, ret,
                   config, opencode, replyCommentId, err, failed,
                   session, response, summary, attempt, fetch, outcome,
                   prComments, prThreads, proc, dirty>>

\* the access credential the run was given (options.pat)
pat == "s3cr3t-pat"

\* the command line cloneRepo hands to exec, with credential p
cloneCommand(p) ==
    "git clone --single-branch --branch main https://:" \o p
        \o "@dev.azure.com/org/proj/_git/" \o repositoryId

\* the message of the error the promisified exec rejects with when the command
\* exits with a failure: "Command failed: " followed by the command line
execFailure(command) == "Command failed: " \o command

\* the directories a clone into workspaceDir creates
CloneDirs ==
    {WorkspaceDir(config.workspacePath)} \cup
    (IF config.workspacePath = <<>> THEN {} ELSE {config.workspacePath})

\* workspace = await cloneRepo(...): git refuses an existing directory; a failed
\* clone may leave the directory behind (checkout failure after the fetch)
CloneRepo ==
    /\ pc = "clone"
    /\ \/ /\ WorkspaceDir(config.workspacePath) \notin fs
          /\ fs' = fs \cup CloneDirs
          /\ workspace' = WorkspaceDir(config.workspacePath)
          /\ cleanupWorkspaceDir' = (config.mode = "review")
          /\ log' = Append(log, "clone")
          /\ pc' = IF config.mode = "command" THEN "gitconfig" ELSE "copyscript"
          /\ UNCHANGED <<err, failed>>
       \/ /\ \E left \in BOOLEAN : fs' = IF left THEN fs \cup CloneDirs ELSE fs
          /\ log' = Append(log, "clone-failed")
          /\ Throw("clone", execFailure(cloneCommand(pat)))
          /\ UNCHANGED <<workspace, cleanupWorkspaceDir>>
    /\ UNCHANGED <<StreamVars, prompts, commits, runConfig, triggerContext, call, ret,
                   config, opencode, replyCommentId,
                   session, response, summary, attempt, fetch, outcome,
                   prComments, prThreads, proc, dirty>>

\* runCommand: await setupGitConfig(workspace)
SetupGitConfig ==
    /\ pc = "gitconfig"
    /\ \/ pc' = "spawn" /\ UNCHANGED <<err, failed>>
       \/ Throw("gitconfig", "git-config-failed")
    /\ UNCHANGED <<StreamVars, prompts, commits, runConfig, triggerContext, call, ret,
                   config, opencode, workspace, cleanupWorkspaceDir, replyCommentId,
                   session, response, summary, attempt, fetch, outcome,
                   prComments, prThreads, fs, proc, dirty, log>>

\* runCodeReview: await copyReviewScriptToWorkspace(workspace)
CopyReviewScriptToWorkspace ==
    /\ pc = "copyscript"
    /\ \/ pc' = "spawn" /\ UNCHANGED <<err, failed>>
       \/ Throw("copyscript", "unable-to-locate-review-script")
    /\ UNCHANGED <<StreamVars, prompts, commits, runConfig, triggerContext, call, ret,
                   config, opencode, workspace, cleanupWorkspaceDir, replyCommentId,
                   session, response, summary, attempt, fetch, outcome,
                   prComments, prThreads, fs, proc, dirty, log>>

(* --------------------------- agent subprocess --------------------------- *)
\* opencode = createOpencodeInstance(workspace): spawns `opencode serve`
CreateOpencodeInstance ==
    /\ pc = "spawn"
    /\ opencode' = TRUE
    /\ proc' = "running"
    /\ log' = Append(log, "spawn")
    /\ pc' = "connect"
    /\ UNCHANGED <<StreamVars, prompts, commits, runConfig, triggerContext, call, ret,
                   config, workspace, cleanupWorkspaceDir, replyCommentId,
                   session, response, summary, attempt, fetch, err, outcome,
                   prComments, prThreads, fs, dirty, failed>>

\* variant of WaitForConnection whose loop condition is attempt <= the bound
WaitForConnection_oneMore ==
    /\ pc = "connect"
    /\ IF attempt <= CONNECTION_MAX_RETRIES
       THEN \/ /\ pc' = "session"              \* client.app.log resolved: return
               /\ attempt' = 0
               /\ UNCHANGED <<err, failed>>
            \/ /\ attempt' = attempt + 1        \* catch: delay, next attempt
               /\ UNCHANGED <<pc, err, failed>>
       ELSE /\ Throw("connect", "Failed to connect to opencode server")
            /\ attempt' = 0
    /\ UNCHANGED <<StreamVars, prompts, commits, runConfig, triggerContext, call, ret,
                   config, opencode, workspace, cleanupWorkspaceDir, replyCommentId,
                   session, response, summary, fetch, outcome,
                   prComments, prThreads, fs, proc, dirty, log>>

\* waitForConnection: one pass of the for loop, or the throw after it
WaitForConnection ==
    /\ pc = "connect"
    /\ IF attempt < CONNECTION_MAX_RETRIES
       THEN \/ /\ pc' = "session"              \* client.app.log resolved: return
               /\ attempt' = 0
               /\ log' = Append(log, "connected")
               /\ UNCHANGED <<err, failed>>
            \/ /\ attempt' = attempt + 1        \* catch: delay, next attempt
               /\ UNCHANGED <<pc, err, failed, log>>
       ELSE /\ Throw("connect", "Failed to connect to opencode server")
            /\ attempt' = 0
            /\ UNCHANGED log
    /\ UNCHANGED <<StreamVars, prompts, commits, runConfig, triggerContext, call, ret,
                   config, opencode, workspace, cleanupWorkspaceDir, replyCommentId,
                   session, response, summary, fetch, outcome,
                   prComments, prThreads, fs, proc, dirty>>

\* sessionResp = await opencode.client.session.create()
SessionCreate ==
    /\ pc = "session"
    /\ \/ \E id \in SessionIds :
            /\ session' = id
            /\ pc' = "subscribe"
            /\ UNCHANGED <<err, failed>>
       \/ /\ Throw("session", "session-create-failed")
          /\ UNCHANGED session
    /\ UNCHANGED <<StreamVars, prompts, commits, runConfig, triggerContext, call, ret,
                   config, opencode, workspace, cleanupWorkspaceDir, replyCommentId,
                   response, summary, attempt, fetch, outcome,
                   prComments, prThreads, fs, proc, dirty, log>>

\* subscribeToSessionEvents(opencode.server, session): returns at once
SubscribeToSessionEvents ==
    /\ pc = "subscribe"
    /\ pc' = "prompt"
    /\ reader' = "connecting"
    /\ UNCHANGED <<received, partial, rendered, prompts, commits, runConfig, triggerContext, call, ret,
                   config, opencode, workspace, cleanupWorkspaceDir, replyCommentId,
                   session, response, summary, attempt, fetch, err, outcome,
                   prComments, prThreads, fs, proc, dirty, failed, log>>

(* ------------------------------- prompts -------------------------------- *)
ToolPart == [type |-> "tool", text |-> ""]
TextPart(t) == [type |-> "text", text |-> t]

\* result.data.parts of a prompt response
PartLists ==
    { <<>>,
      <<ToolPart>>,
      <<ToolPart, TextPart("LGTM"), ToolPart>>,
      <<TextPart("draft"), ToolPart, TextPart("LGTM")>>,
      <<TextPart("Renamed the helper and updated all of its callers")>> }

\* result.response.status of a prompt response
PromptStatuses == {200, 201, 500}

\* opencodeConfig.agent, "" when no agent is configured
RequestedAgents == {"", "build", "explore"}

PrimaryAgent(n) == [name |-> n, mode |-> "primary"]
SubAgent(n) == [name |-> n, mode |-> "subagent"]

\* the outcomes of client.app.agents(): the request rejects, or it resolves
\* without data, or it resolves with the agents of the subprocess
AgentListings ==
    { [rejected |-> TRUE, hasData |-> FALSE, data |-> <<>>],
      [rejected |-> FALSE, hasData |-> FALSE, data |-> <<>>] } \cup
    { [rejected |-> FALSE, hasData |-> TRUE, data |-> d] :
        d \in { <<>>,
                <<PrimaryAgent("build")>>,
                <<SubAgent("explore")>>,
                <<PrimaryAgent("plan"), SubAgent("explore"), PrimaryAgent("build")>> } }

\* agents.data?.find((a) => a.name === agent): the index of the first match, 0
\* when there is none or there is no data
FindAgent(listing, agent) ==
    LET hits == { i \in 1..Len(listing.data) : listing.data[i].name = agent }
    IN  IF ~listing.hasData \/ hits = {} THEN 0
        ELSE CHOOSE i \in hits : \A j \in hits : i <= j

\* resolveAgent(client, agent): the name to send ("" for the default agent),
\* the error it throws, and whether it asked for the agent list.  The await of
\* client.app.agents() is outside any try block
resolveAgent(agent, listing) ==
    IF agent = "" THEN [agent |-> "", error |-> "", fetched |-> FALSE]
    ELSE IF listing.rejected
         THEN [agent |-> "", error |-> "agents-request-failed", fetched |-> TRUE]
    ELSE LET i == FindAgent(listing, agent)
         IN  IF i = 0 THEN [agent |-> "", error |-> "", fetched |-> TRUE]
             ELSE IF listing.data[i].mode = "subagent"
                  THEN [agent |-> "", error |-> "", fetched |-> TRUE]
                  ELSE [agent |-> listing.data[i].name, error |-> "", fetched |-> TRUE]

\* variant of LastText that takes the first text part
LastText_first(parts) ==
    LET textParts == SelectSeq(parts, LAMBDA q : q.type = "text")
    IN  IF Len(textParts) = 0 THEN "" ELSE textParts[1].text

\* sendPrompt: textParts[textParts.length - 1]?.text || ""
LastText(parts) ==
    LET textParts == SelectSeq(parts, LAMBDA q : q.type = "text")
    IN  IF Len(textParts) = 0 THEN "" ELSE textParts[Len(textParts)].text

\* `OpenCode prompt failed with status ${result.response.status}`
PromptFailed(status) == "OpenCode prompt failed with status " \o ToString(status)

\* variant of sendPrompt that raises for server errors only
sendPrompt_serverErrorsOnly(agent, listing, requestOk, status, parts) ==
    LET a == resolveAgent(agent, listing)
    IN  IF a.error # ""
        THEN [text |-> "", error |-> a.error, sent |-> FALSE, agent |-> "",
              fetched |-> a.fetched]
        ELSE IF ~requestOk
        THEN [text |-> "", error |-> "prompt-request-failed", sent |-> TRUE,
              agent |-> a.agent, fetched |-> a.fetched]
        ELSE IF status >= 500
        THEN [text |-> "", error |-> PromptFailed(status), sent |-> TRUE,
              agent |-> a.agent, fetched |-> a.fetched]
        ELSE [text |-> LastText(parts), error |-> "", sent |-> TRUE,
              agent |-> a.agent, fetched |-> a.fetched]

\* sendPrompt: the text it returns, or "" with the error it throws; whether
\* the prompt request was made, and the agent name it carried
sendPrompt(agent, listing, requestOk, status, parts) ==
    LET a == resolveAgent(agent, listing)
    IN  IF a.error # ""
        THEN [text |-> "", error |-> a.error, sent |-> FALSE, agent |-> "",
              fetched |-> a.fetched]
        ELSE IF ~requestOk
        THEN [text |-> "", error |-> "prompt-request-failed", sent |-> TRUE,
              agent |-> a.agent, fetched |-> a.fetched]
        ELSE IF status # 200
        THEN [text |-> "", error |-> PromptFailed(status), sent |-> TRUE,
              agent |-> a.agent, fetched |-> a.fetched]
        ELSE [text |-> LastText(parts), error |-> "", sent |-> TRUE,
              agent |-> a.agent, fetched |-> a.fetched]

\* variant of PromptRecord in which a prompt names another session
PromptRecord_otherSession(r, requestOk, status) ==
    IF r.sent
    THEN Append(prompts, [session |-> CHOOSE id \in SessionIds : id # session,
                          status |-> IF requestOk THEN status ELSE 0])
    ELSE prompts

\* the record of a prompt request: the session it named and the status of the
\* response, 0 when the request got no response
PromptRecord(r, requestOk, status) ==
    IF r.sent
    THEN Append(prompts, [session |-> session,
                          status |-> IF requestOk THEN status ELSE 0])
    ELSE prompts

\* variant of SendPrompt after which review mode too looks for changes to commit
SendPrompt_commitInReview ==
    /\ pc = "prompt"
    /\ \E agent \in RequestedAgents, listing \in AgentListings,
          requestOk \in BOOLEAN, status \in PromptStatuses, parts \in PartLists :
          LET r == sendPrompt(agent, listing, requestOk, status, parts)
          IN  /\ prompts' = PromptRecord(r, requestOk, status)
              /\ IF r.error = ""
                 THEN /\ response' = r.text
                      /\ pc' = "status"
                      /\ UNCHANGED <<err, failed>>
                 ELSE /\ Throw("prompt", r.error)
                      /\ UNCHANGED response
    /\ dirty' \in BOOLEAN
    /\ log' = Append(log, "prompt")
    /\ UNCHANGED <<StreamVars, commits, runConfig, triggerContext, call, ret,
                   config, opencode, workspace, cleanupWorkspaceDir, replyCommentId,
                   session, summary, attempt, fetch, outcome,
                   prComments, prThreads, fs, proc>>

\* const response = await sendPrompt(client, session, prompt, opencodeConfig);
\* while it runs the agent may change files of the working tree
SendPrompt ==
    /\ pc = "prompt"
    /\ \E agent \in RequestedAgents, listing \in AgentListings,
          requestOk \in BOOLEAN, status \in PromptStatuses, parts \in PartLists :
          LET r == sendPrompt(agent, listing, requestOk, status, parts)
          IN  /\ prompts' = PromptRecord(r, requestOk, status)
              /\ IF r.error = ""
                 THEN /\ response' = r.text
                      /\ pc' = IF config.mode = "command" THEN "status" ELSE "edit"
                      /\ UNCHANGED <<err, failed>>
                 ELSE /\ Throw("prompt", r.error)
                      /\ UNCHANGED response
    /\ dirty' \in BOOLEAN
    /\ log' = Append(log, "prompt")
    /\ UNCHANGED <<StreamVars, commits, runConfig, triggerContext, call, ret,
                   config, opencode, workspace, cleanupWorkspaceDir, replyCommentId,
                   session, summary, attempt, fetch, outcome,
                   prComments, prThreads, fs, proc>>

(* --------------------------- commit and push ---------------------------- *)
\* variant of HasUncommittedChanges that reports changes whatever the tree holds
HasUncommittedChanges_always ==
    /\ pc = "status"
    /\ \/ /\ pc' = "summary"
          /\ log' = Append(log, "changes")
          /\ UNCHANGED <<err, failed>>
       \/ /\ Throw("status", "git-status-failed")
          /\ UNCHANGED log
    /\ UNCHANGED <<StreamVars, prompts, commits, runConfig, triggerContext, call, ret,
                   config, opencode, workspace, cleanupWorkspaceDir, replyCommentId,
                   session, response, summary, attempt, fetch, outcome,
                   prComments, prThreads, fs, proc, dirty>>

\* if (await hasUncommittedChanges(workspace)) { console.log("Changes detected,
\* committing and pushing...") ... } else { console.log("No changes detected ...") }
HasUncommittedChanges ==
    /\ pc = "status"
    /\ \/ /\ pc' = IF dirty THEN "summary" ELSE "edit"
          /\ log' = Append(log, IF dirty THEN "changes" ELSE "no-changes")
          /\ UNCHANGED <<err, failed>>
       \/ /\ Throw("status", "git-status-failed")
          /\ UNCHANGED log
    /\ UNCHANGED <<StreamVars, prompts, commits, runConfig, triggerContext, call, ret,
                   config, opencode, workspace, cleanupWorkspaceDir, replyCommentId,
                   session, response, summary, attempt, fetch, outcome,
                   prComments, prThreads, fs, proc, dirty>>

\* const summary = await sendPrompt(..., `Summarize ... ${response}`, ...)
SendSummaryPrompt ==
    /\ pc = "summary"
    /\ \E agent \in RequestedAgents, listing \in AgentListings,
          requestOk \in BOOLEAN, status \in PromptStatuses, parts \in PartLists :
          LET r == sendPrompt(agent, listing, requestOk, status, parts)
          IN  /\ prompts' = PromptRecord(r, requestOk, status)
              /\ IF r.error = ""
                 THEN /\ summary' = r.text
                      /\ pc' = "commit"
                      /\ UNCHANGED <<err, failed>>
                 ELSE /\ Throw("summary", r.error)
                      /\ UNCHANGED summary
    /\ log' = Append(log, "prompt")
    /\ UNCHANGED <<StreamVars, commits, runConfig, triggerContext, call, ret,
                   config, opencode, workspace, cleanupWorkspaceDir, replyCommentId,
                   session, response, attempt, fetch, outcome,
                   prComments, prThreads, fs, proc, dirty>>

\* await commitChanges(workspace, summary): git add -A; git commit -m "${message}"
CommitChanges ==
    /\ pc = "commit"
    /\ \/ /\ dirty' = FALSE
          /\ commits' = Append(commits, summary)
          /\ log' = Append(log, "commit")
          /\ pc' = "push"
          /\ UNCHANGED <<err, failed>>
       \/ /\ Throw("commit", "git-commit-failed")
          /\ UNCHANGED <<dirty, log, commits>>
    /\ UNCHANGED <<StreamVars, prompts, runConfig, triggerContext, call, ret,
                   config, opencode, workspace, cleanupWorkspaceDir, replyCommentId,
                   session, response, summary, attempt, fetch, outcome,
                   prComments, prThreads, fs, proc>>

\* await pushChanges(workspace)
PushChanges ==
    /\ pc = "push"
    /\ \/ /\ log' = Append(log, "push")
          /\ pc' = "edit"
          /\ UNCHANGED <<err, failed>>
       \/ /\ Throw("push", "git-push-failed")
          /\ UNCHANGED log
    /\ UNCHANGED <<StreamVars, prompts, commits, runConfig, triggerContext, call, ret,
                   config, opencode, workspace, cleanupWorkspaceDir, replyCommentId,
                   session, response, summary, attempt, fetch, outcome,
                   prComments, prThreads, fs, proc, dirty>>

(* ------------------------- pull-request feedback ------------------------ *)
\* the API has a comment with this id in this thread
CommentExists(threadId, id) ==
    \E c \in prComments : c.threadId = threadId /\ c.id = id

\* editPullRequestComment(..., threadId, commentId, pat, content), when it succeeds
editPullRequestComment(threadId, id, content) ==
    { IF c.threadId = threadId /\ c.id = id THEN [c EXCEPT !.content = content] ELSE c :
      c \in prComments }

\* createPullRequestThread: body.status = statusMap[options.status] || 1
statusMap(name) ==
    CASE name = "active" -> STATUS_ACTIVE
      [] name = "fixed" -> STATUS_FIXED
      [] name = "wontFix" -> 3
      [] name = "closed" -> 4
      [] name = "byDesign" -> 5
      [] name = "pending" -> 6
      [] OTHER -> STATUS_ACTIVE

\* createPullRequestThread(..., content, {status}), when it succeeds
createPullRequestThread(content, status) ==
    Append(prThreads, [status |-> statusMap(status), content |-> content])

\* variant of EditTargetId that edits the trigger comment instead of the reply
EditTargetId_trigger == config.commentId

\* the comment the runner edits at the end: replyComment.id / replyCommentId
EditTargetId == replyCommentId

\* variant of ReplyKnown with the sense of commentTrigger taken the other way
ReplyKnown_inverted == commentTrigger /\ replyCommentId # 0 /\ config.threadId # 0

\* the guard of both edits in runCodeReview
ReplyKnown == ~commentTrigger /\ replyCommentId # 0 /\ config.threadId # 0

\* the last step of the try block.  runCommand edits the reply; runCodeReview
\* edits it under `!commentTrigger && replyCommentId && threadId` and has no
\* else branch
EditPullRequestComment ==
    /\ pc = "edit"
    /\ IF config.mode = "command" \/ ReplyKnown
       THEN \/ /\ CommentExists(config.threadId, EditTargetId)
               /\ prComments' = editPullRequestComment(config.threadId, EditTargetId,
                                                       <<response, footer>>)
               /\ log' = Append(log, "edit-result")
               /\ pc' = "finally"
               /\ UNCHANGED <<err, failed>>
            \/ /\ Throw("edit", "edit-request-failed")
               /\ UNCHANGED <<prComments, log>>
       ELSE /\ pc' = "finally"
            /\ UNCHANGED <<prComments, log, err, failed>>
    /\ UNCHANGED <<StreamVars, prompts, commits, runConfig, triggerContext, call, ret,
                   config, opencode, workspace, cleanupWorkspaceDir, replyCommentId,
                   session, response, summary, attempt, fetch, outcome,
                   prThreads, fs, proc, dirty>>

(* ------------------------------- catch ---------------------------------- *)
\* variant of CatchCommand without the rethrow: the error is logged and dropped
CatchCommand_swallow ==
    /\ pc = "catch"
    /\ config.mode = "command"
    /\ err' = ""
    /\ pc' = "finally"
    /\ UNCHANGED <<StreamVars, prompts, commits, runConfig, triggerContext, call, ret,
                   config, opencode, workspace, cleanupWorkspaceDir, replyCommentId,
                   session, response, summary, attempt, fetch, outcome,
                   prComments, prThreads, fs, proc, dirty, failed, log>>

\* runCommand: catch (err) { console.error(...); throw err }
CatchCommand ==
    /\ pc = "catch"
    /\ config.mode = "command"
    /\ pc' = "finally"
    /\ UNCHANGED <<StreamVars, prompts, commits, runConfig, triggerContext, call, ret,
                   config, opencode, workspace, cleanupWorkspaceDir, replyCommentId,
                   session, response, summary, attempt, fetch, err, outcome,
                   prComments, prThreads, fs, proc, dirty, failed, log>>

\* `## OpenCode Review Summary\n\nReview failed: ${err.message}${footer}`
errorMessage == <<"## OpenCode Review Summary", "Review failed: ", err, footer>>

\* variant of CatchReview whose delivery calls are outside the try statement: a
\* rejected delivery call leaves the function without passing the finally block
CatchReview_deliveryOutsideTry ==
    /\ pc = "catch"
    /\ config.mode = "review"
    /\ IF ReplyKnown
       THEN \/ /\ CommentExists(config.threadId, EditTargetId)
               /\ prComments' = editPullRequestComment(config.threadId, EditTargetId,
                                                       errorMessage)
               /\ log' = Append(log, "edit-failure")
               /\ pc' = "finally"
               /\ UNCHANGED <<prThreads, err, failed, outcome>>
            \/ /\ err' = "edit-request-failed"
               /\ failed' = Append(failed, [step |-> "deliver", error |-> err'])
               /\ pc' = "done"
               /\ outcome' = "raised"
               /\ UNCHANGED <<prComments, prThreads, log>>
       ELSE \/ /\ prThreads' = createPullRequestThread(errorMessage, "fixed")
               /\ log' = Append(log, "thread-failure")
               /\ pc' = "finally"
               /\ UNCHANGED <<prComments, err, failed, outcome>>
            \/ /\ err' = "create-thread-failed"
               /\ failed' = Append(failed, [step |-> "deliver", error |-> err'])
               /\ pc' = "done"
               /\ outcome' = "raised"
               /\ UNCHANGED <<prComments, prThreads, log>>
    /\ UNCHANGED <<StreamVars, prompts, commits, runConfig, triggerContext, call, ret,
                   config, opencode, workspace, cleanupWorkspaceDir, replyCommentId,
                   session, response, summary, attempt, fetch,
                   fs, proc, dirty>>

\* runCodeReview: catch (err) { edit the reply or create a thread; throw err }.
\* When the delivery call rejects, its error leaves the catch clause instead.
CatchReview ==
    /\ pc = "catch"
    /\ config.mode = "review"
    /\ IF ReplyKnown
       THEN \/ /\ CommentExists(config.threadId, EditTargetId)
               /\ prComments' = editPullRequestComment(config.threadId, EditTargetId,
                                                       errorMessage)
               /\ log' = Append(log, "edit-failure")
               /\ UNCHANGED <<prThreads, err, failed>>
            \/ /\ err' = "edit-request-failed"
               /\ failed' = Append(failed, [step |-> "deliver", error |-> err'])
               /\ UNCHANGED <<prComments, prThreads, log>>
       ELSE \/ /\ prThreads' = createPullRequestThread(errorMessage, "fixed")
               /\ log' = Append(log, "thread-failure")
               /\ UNCHANGED <<prComments, err, failed>>
            \/ /\ err' = "create-thread-failed"
               /\ failed' = Append(failed, [step |-> "deliver", error |-> err'])
               /\ UNCHANGED <<prComments, prThreads, log>>
    /\ pc' = "finally"
    /\ UNCHANGED <<StreamVars, prompts, commits, runConfig, triggerContext, call, ret,
                   config, opencode, workspace, cleanupWorkspaceDir, replyCommentId,
                   session, response, summary, attempt, fetch, outcome,
                   fs, proc, dirty>>

(* ------------------------------ finally --------------------------------- *)
\* variant of KillOpencode placed at the end of the try block instead of in
\* finally: the subprocess is terminated only when no error is propagating
KillOpencode_onlyOnSuccess ==
    /\ pc = "finally"
    /\ IF opencode /\ err = ""
       THEN /\ proc' = "killed"
            /\ log' = Append(log, "kill")
       ELSE UNCHANGED <<proc, log>>
    /\ pc' = "cleanup"
    /\ UNCHANGED <<StreamVars, prompts, commits, runConfig, triggerContext, call, ret,
                   config, opencode, workspace, cleanupWorkspaceDir, replyCommentId,
                   session, response, summary, attempt, fetch, err, outcome,
                   prComments, prThreads, fs, dirty, failed>>

\* variant of KillOpencode that first waits for the event reader to end
KillOpencode_awaitsReader ==
    /\ pc = "finally"
    /\ reader \in {"none", "ended"}
    /\ IF opencode
       THEN /\ proc' = "killed"
            /\ log' = Append(log, "kill")
       ELSE UNCHANGED <<proc, log>>
    /\ pc' = "cleanup"
    /\ UNCHANGED <<StreamVars, prompts, commits, runConfig, triggerContext, call, ret,
                   config, opencode, workspace, cleanupWorkspaceDir, replyCommentId,
                   session, response, summary, attempt, fetch, err, outcome,
                   prComments, prThreads, fs, dirty, failed>>

\* if (opencode) { opencode.server.process.kill() [; await delay(1000)] }
KillOpencode ==
    /\ pc = "finally"
    /\ IF opencode
       THEN /\ proc' = "killed"
            /\ log' = Append(log, "kill")
       ELSE UNCHANGED <<proc, log>>
    /\ pc' = "cleanup"
    /\ UNCHANGED <<StreamVars, prompts, commits, runConfig, triggerContext, call, ret,
                   config, opencode, workspace, cleanupWorkspaceDir, replyCommentId,
                   session, response, summary, attempt, fetch, err, outcome,
                   prComments, prThreads, fs, dirty, failed>>

\* runCommand: if (workspace); runCodeReview: if (cleanupWorkspaceDir && workspace)
OwnsWorkspace ==
    IF config.mode = "command" THEN workspace # <<>>
    ELSE cleanupWorkspaceDir /\ workspace # <<>>

\* variant of FinallyCleanup that first awaits the promise of the event reader
FinallyCleanup_awaitsReader ==
    /\ pc = "cleanup"
    /\ reader \in {"none", "ended"}
    /\ IF OwnsWorkspace
       THEN \E rmOk \in BOOLEAN :
               /\ fs' = AfterRm(workspace, rmOk)
               /\ log' = Append(log, IF rmOk THEN "cleanup" ELSE "cleanup-failed")
               /\ err' = IF cleanupWorkspace(rmOk) = "returned" THEN err ELSE "rm-failed"
       ELSE UNCHANGED <<fs, log, err>>
    /\ outcome' = IF err' = "" THEN "returned" ELSE "raised"
    /\ pc' = "done"
    /\ UNCHANGED <<StreamVars, prompts, commits, runConfig, triggerContext, call, ret,
                   config, opencode, workspace, cleanupWorkspaceDir, replyCommentId,
                   session, response, summary, attempt, fetch,
                   prComments, prThreads, proc, dirty, failed>>

\* variant of FinallyCleanup placed first in the finally block, before the
\* subprocess is dealt with
FinallyCleanup_first ==
    /\ pc = "finally"
    /\ IF OwnsWorkspace
       THEN \E rmOk \in BOOLEAN :
               /\ fs' = AfterRm(workspace, rmOk)
               /\ log' = Append(log, IF rmOk THEN "cleanup" ELSE "cleanup-failed")
               /\ err' = IF cleanupWorkspace(rmOk) = "returned" THEN err ELSE "rm-failed"
       ELSE UNCHANGED <<fs, log, err>>
    /\ outcome' = IF err' = "" THEN "returned" ELSE "raised"
    /\ pc' = "done"
    /\ UNCHANGED <<StreamVars, prompts, commits, runConfig, triggerContext, call, ret,
                   config, opencode, workspace, cleanupWorkspaceDir, replyCommentId,
                   session, response, summary, attempt, fetch,
                   prComments, prThreads, proc, dirty, failed>>

\* if (<owned>) { await cleanupWorkspace(workspace) }, then the run leaves the
\* finally block: it returns, or raises the error that is propagating
FinallyCleanup ==
    /\ pc = "cleanup"
    /\ IF OwnsWorkspace
       THEN \E rmOk \in BOOLEAN :
               /\ fs' = AfterRm(workspace, rmOk)
               /\ log' = Append(log, IF rmOk THEN "cleanup" ELSE "cleanup-failed")
               /\ err' = IF cleanupWorkspace(rmOk) = "returned" THEN err ELSE "rm-failed"
       ELSE UNCHANGED <<fs, log, err>>
    /\ outcome' = IF err' = "" THEN "returned" ELSE "raised"
    /\ pc' = "done"
    /\ UNCHANGED <<StreamVars, prompts, commits, runConfig, triggerContext, call, ret,
                   config, opencode, workspace, cleanupWorkspaceDir, replyCommentId,
                   session, response, summary, attempt, fetch,
                   prComments, prThreads, proc, dirty, failed>>

(* --------------------------- specification ------------------------------ *)
(* ======================================================================= *)
(*                          the event-stream reader                        *)
(* ======================================================================= *)
\* The parsed JSON of an event.  hasPart and hasState tell whether
\* properties.part and part.state are there; input is "" when state.input is
\* missing, "{}" when it has no keys
NoEvent ==
    [type |-> "", hasPart |-> FALSE, sessionID |-> "", partType |-> "",
     hasState |-> FALSE, status |-> "", title |-> "", input |-> "",
     end |-> FALSE, text |-> ""]

PartUpdated(sid, partType) ==
    [NoEvent EXCEPT !.type = "message.part.updated", !.hasPart = TRUE,
                    !.sessionID = sid, !.partType = partType]

ToolEvent(sid, status, title) ==
    [PartUpdated(sid, "tool") EXCEPT !.hasState = TRUE, !.status = status,
                                     !.title = title, !.input = "{}"]

TextEvent(sid, end, text) ==
    [PartUpdated(sid, "text") EXCEPT !.end = end, !.text = text]

\* the events the subprocess sends
Events ==
    { [NoEvent EXCEPT !.type = "session.idle"],
      [NoEvent EXCEPT !.type = "message.part.updated"],
      PartUpdated("ses_1", "tool"),
      ToolEvent("ses_1", "running", ""),
      ToolEvent("ses_1", "completed", "Read file"),
      TextEvent("ses_1", FALSE, "Do"),
      TextEvent("ses_1", TRUE, "Done"),
      TextEvent("ses_2", TRUE, "Other") }

\* The bytes of the stream as tokens: the prefix "data: ", the two halves of
\* the JSON text of an event, text that is no JSON, and the newline character
Token(k, e) == [k |-> k, evt |-> e]
DataPrefix == Token("data: ", NoEvent)
JsonHead(e) == Token("json-head", e)
JsonTail(e) == Token("json-tail", e)
NotJson == Token("not-json", NoEvent)
Newline == Token("\n", NoEvent)

\* the lines of the stream, without their newline
StreamLines ==
    { <<DataPrefix, NotJson>> } \cup
    { <<DataPrefix, JsonHead(e), JsonTail(e)>> : e \in Events }

\* where a read can end inside a line: in the middle of the JSON text of a
\* finished part, the lines that carry a whole text or tool result
CutPoints(line) ==
    IF Len(line) = 3 /\ (line[2].evt.end \/ line[2].evt.status = "completed")
    THEN {2} ELSE {}

\* JSON.parse(jsonStr): the event, or a SyntaxError
JSONparse(jsonStr) ==
    IF /\ Len(jsonStr) = 2
       /\ jsonStr[1].k = "json-head" /\ jsonStr[2].k = "json-tail"
       /\ jsonStr[1].evt = jsonStr[2].evt
    THEN [ok |-> TRUE, evt |-> jsonStr[1].evt]
    ELSE [ok |-> FALSE, evt |-> NoEvent]

ToolLine(title) == [type |-> "tool", text |-> title]
TextLines(text) == [type |-> "text", text |-> text]

\* processEvent(evt): what it prints, and whether it throws (a TypeError on a
\* missing part, state or input)
processEvent(evt, sessionId) ==
    IF evt.type # "message.part.updated" THEN [out |-> <<>>, threw |-> FALSE]
    ELSE IF ~evt.hasPart THEN [out |-> <<>>, threw |-> TRUE]
    ELSE IF evt.sessionID # sessionId THEN [out |-> <<>>, threw |-> FALSE]
    ELSE IF evt.partType = "tool"
    THEN IF ~evt.hasState THEN [out |-> <<>>, threw |-> TRUE]
         ELSE IF evt.status # "completed" THEN [out |-> <<>>, threw |-> FALSE]
         ELSE IF evt.title # "" THEN [out |-> <<ToolLine(evt.title)>>, threw |-> FALSE]
         ELSE IF evt.input = "" THEN [out |-> <<>>, threw |-> TRUE]
         ELSE [out |-> <<ToolLine(IF evt.input = "{}" THEN "Unknown" ELSE evt.input)>>,
               threw |-> FALSE]
    ELSE IF evt.partType = "text" /\ evt.end
    THEN [out |-> <<TextLines(evt.text)>>, threw |-> FALSE]
    ELSE [out |-> <<>>, threw |-> FALSE]

\* chunk.split("\n")
RECURSIVE splitChunk(_)
splitChunk(chunk) ==
    LET nls == { i \in 1..Len(chunk) : chunk[i] = Newline }
    IN  IF nls = {} THEN <<chunk>>
        ELSE LET k == CHOOSE i \in nls : \A j \in nls : i <= j
             IN  <<SubSeq(chunk, 1, k - 1)>>
                 \o splitChunk(SubSeq(chunk, k + 1, Len(chunk)))

\* the body of the for loop: what one line of a chunk prints.  The inner try
\* block catches what JSON.parse and processEvent throw
processLine(line, sessionId) ==
    IF line = <<>> \/ line[1] # DataPrefix THEN <<>>      \* !line.startsWith("data: ")
    ELSE LET jsonStr == Tail(line)                        \* line.slice(6).trim()
         IN  IF jsonStr = <<>> THEN <<>>
             ELSE LET parsed == JSONparse(jsonStr)
                  IN  IF ~parsed.ok THEN <<>>
                      ELSE processEvent(parsed.evt, sessionId).out

RECURSIVE processLines(_, _)
processLines(lines, sessionId) ==
    IF lines = <<>> THEN <<>>
    ELSE processLine(Head(lines), sessionId) \o processLines(Tail(lines), sessionId)

\* for (const line of chunk.split("\n")) { ... }
processChunk(chunk, sessionId) == processLines(splitChunk(chunk), sessionId)

\* the variables of the run that the reader has no access to
RunVars ==
    <<prompts, commits, runConfig, triggerContext, call, ret, config, pc, opencode,
      workspace, cleanupWorkspaceDir, replyCommentId, session, response, summary,
      attempt, fetch, err, outcome, prComments, prThreads, fs, proc, dirty,
      failed, log>>

\* variant of ReaderConnect in which a refused connection is an error of the run
ReaderConnect_unhandled ==
    /\ reader = "connecting"
    /\ \/ /\ proc = "running"
          /\ reader' = "reading"
          /\ UNCHANGED RunVars
       \/ /\ reader' = "ended"
          /\ err' = "event-stream-failed"
          /\ UNCHANGED <<prompts, commits, runConfig, triggerContext, call, ret, config,
                         pc, opencode, workspace, cleanupWorkspaceDir, replyCommentId,
                         session, response, summary, attempt, fetch, outcome,
                         prComments, prThreads, fs, proc, dirty, failed, log>>
    /\ UNCHANGED <<received, partial, rendered>>

\* const response = await fetch(`${server.url}/event`); if (!response.body) return.
\* The reader ends when the response has no body (return) and when fetch
\* rejects (the outer catch prints a line); both leave the async function
ReaderConnect ==
    /\ reader = "connecting"
    /\ \/ /\ proc = "running"            \* the response has a body
          /\ reader' = "reading"
       \/ reader' = "ended"
    /\ UNCHANGED <<received, partial, rendered, RunVars>>

\* the reader prints what the lines of this chunk give
Deliver(chunk) == rendered' = rendered \o processChunk(chunk, session)

\* const { done, value } = await reader.read(), with a chunk: a whole line with
\* its newline, the first bytes of a line, or the rest of the line begun by
\* the chunk before
ReadChunk ==
    /\ reader = "reading"
    /\ proc = "running"
    /\ IF partial = <<>>
       THEN /\ Len(received) < MaxLines
            /\ \E line \in StreamLines :
                 \/ /\ Deliver(Append(line, Newline))
                    /\ received' = Append(received, line)
                    /\ UNCHANGED partial
                 \/ \E cut \in CutPoints(line) :
                       /\ Deliver(SubSeq(line, 1, cut))
                       /\ partial' = <<line, Append(SubSeq(line, cut + 1, Len(line)),
                                                   Newline)>>
                       /\ UNCHANGED received
       ELSE /\ Deliver(partial[2])
            /\ received' = Append(received, partial[1])
            /\ partial' = <<>>
    /\ UNCHANGED <<reader, RunVars>>

\* reader.read() gives done (break), or rejects (the outer catch prints a
\* line); both leave the async function.  The connection is closed, and the
\* rest of a line that was on its way is lost
ReadEnd ==
    /\ reader = "reading"
    /\ reader' = "ended"
    /\ partial' = <<>>
    /\ UNCHANGED <<received, rendered, RunVars>>

Next ==
    \/ ResolveRunConfig
    \/ GetPullRequestThread
    \/ ResolveModeFromComment
    \/ ValidateResolvedTrigger
    \/ RunCommand
    \/ RunCodeReview
    \/ AssertOpencodeInstalled
    \/ ValidateTrigger
    \/ AddPullRequestComment
    \/ StartFetches
    \/ CompleteFetch
    \/ JoinFetches
    \/ RejectFetches
    \/ GetPullRequestIterationChanges
    \/ UseExistingWorkspace
    \/ PreCleanupWorkspace
    \/ CloneRepo
    \/ SetupGitConfig
    \/ CopyReviewScriptToWorkspace
    \/ CreateOpencodeInstance
    \/ WaitForConnection
    \/ SessionCreate
    \/ SubscribeToSessionEvents
    \/ SendPrompt
    \/ HasUncommittedChanges
    \/ SendSummaryPrompt
    \/ CommitChanges
    \/ PushChanges
    \/ EditPullRequestComment
    \/ CatchCommand
    \/ CatchReview
    \/ KillOpencode
    \/ FinallyCleanup

Spec == Init /\ [][Next]_vars

\* The runs in which the reader is scheduled: a mode runner, the reader it
\* starts, and the subprocess sending lines
StreamConfigs ==
    { c \in Configs :
        /\ c.buildId = "42"
        /\ c.workspacePath = <<"ws">>
        /\ (c.threadId = 0) <=> (c.commentId = 0)
        /\ \/ c.mode = "command" /\ ~c.skipClone
              /\ c.content \in {<<>>, <<"/","o","c"," ","f","i","x">>}
           \/ c.mode = "review" /\ c.content = <<>> }

InitStream ==
    /\ InitRunner
    /\ config \in StreamConfigs
    /\ fs = {}

\* the steps of the mode runners
RunnerNext ==
    \/ RunCommand
    \/ RunCodeReview
    \/ AssertOpencodeInstalled
    \/ ValidateTrigger
    \/ AddPullRequestComment
    \/ StartFetches
    \/ CompleteFetch
    \/ JoinFetches
    \/ RejectFetches
    \/ GetPullRequestIterationChanges
    \/ UseExistingWorkspace
    \/ PreCleanupWorkspace
    \/ CloneRepo
    \/ SetupGitConfig
    \/ CopyReviewScriptToWorkspace
    \/ CreateOpencodeInstance
    \/ WaitForConnection
    \/ SessionCreate
    \/ SubscribeToSessionEvents
    \/ SendPrompt
    \/ HasUncommittedChanges
    \/ SendSummaryPrompt
    \/ CommitChanges
    \/ PushChanges
    \/ EditPullRequestComment
    \/ CatchCommand
    \/ CatchReview
    \/ KillOpencode
    \/ FinallyCleanup

NextStream ==
    \/ RunnerNext
    \/ ReaderConnect
    \/ ReadChunk
    \/ ReadEnd

SpecStream == InitStream /\ [][NextStream]_vars

\* A run with its event reader, when every awaited call settles: a step of the
\* runner that can be taken is eventually taken (each request is answered or
\* fails and the continuation of the await runs).  Nothing is assumed of the
\* reader, which may stay connecting or reading for ever, fail to connect, or
\* end.  The lines it reads are left out: ReadChunk changes StreamVars only,
\* which no step of the runner reads.
NextLive ==
    \/ RunnerNext
    \/ ReaderConnect
    \/ ReadEnd

SpecLive == InitStream /\ [][NextLive]_vars /\ WF_vars(RunnerNext)

(* ----------------------- pure functions, called alone ------------------- *)
\* fragments of comment texts: keywords, halves of keywords, other text
TextPieces ==
    { <<"/","o","c">>,
      <<"/","O","C">>,
      <<"/","o","p","e","n","c","o","d","e">>,
      <<"-","r","e","v","i","e","w">>,
      <<"-","R","e","v","i","e","w">>,
      <<"/","o">>,
      <<"c">>,
      <<" ","x">> }

RECURSIVE Join(_)
Join(ps) == IF ps = <<>> THEN <<>> ELSE Head(ps) \o Join(Tail(ps))

\* comment texts: every concatenation of at most MaxPieces fragments
CommentTexts ==
    { Join(ps) : ps \in UNION { [1..n -> TextPieces] : n \in 0..MaxPieces } }

\* response part lists: at most MaxParts parts, tool parts and text parts
PartKinds == {ToolPart, TextPart("a"), TextPart("b"), TextPart("")}
ResponseParts == UNION { [1..n -> PartKinds] : n \in 0..MaxParts }

(* ------------------------------ file diffs ------------------------------ *)
\* The output of git diff is a sequence of tokens: the text of a line, or the
\* newline character between two lines.  A hunk header line carries the numbers
\* its text holds; newLines is OmittedCount when the header has no ",count".
OmittedCount == -1
NL == [kind |-> "nl", newStart |-> 0, newLines |-> 0, text |-> "\n"]
HunkHeader(start, count) ==
    [kind |-> "hunk", newStart |-> start, newLines |-> count, text |-> "@@"]
TextLine(t) == [kind |-> "text", newStart |-> 0, newLines |-> 0, text |-> t]
BlankContext == [kind |-> "space", newStart |-> 0, newLines |-> 0, text |-> " "]

IsSpace(t) == t.kind \in {"nl", "space"}

\* String.prototype.trim
trim(s) ==
    LET keep == { i \in 1..Len(s) : ~IsSpace(s[i]) }
    IN  IF keep = {} THEN <<>>
        ELSE SubSeq(s, CHOOSE i \in keep : \A j \in keep : i <= j,
                       CHOOSE i \in keep : \A j \in keep : j <= i)

\* diff.split("\n"): the lines of the text, each a sequence of tokens
RECURSIVE splitLines(_)
splitLines(s) ==
    LET nls == { i \in 1..Len(s) : s[i] = NL }
    IN  IF nls = {} THEN <<s>>
        ELSE LET k == CHOOSE i \in nls : \A j \in nls : i <= j
             IN  <<SubSeq(s, 1, k - 1)>> \o splitLines(SubSeq(s, k + 1, Len(s)))

\* currentHunk.join("\n")
RECURSIVE joinLines(_)
joinLines(lines) ==
    IF lines = <<>> THEN <<>>
    ELSE IF Len(lines) = 1 THEN lines[1]
    ELSE lines[1] \o <<NL>> \o joinLines(Tail(lines))

\* line.match(/^@@ -\d+(?:,\d+)? \+(\d+)(?:,(\d+))? @@(.*)$/)
hunkMatch(line) == Len(line) = 1 /\ line[1].kind = "hunk"

NoHunkInfo == [set |-> FALSE, newStart |-> 0, newLines |-> 0]

\* the loop of parseHunks over the lines, and its "save last hunk"
RECURSIVE parseLines(_, _, _, _)
parseLines(lines, hunks, currentHunk, currentHunkInfo) ==
    LET saved == IF currentHunkInfo.set /\ Len(currentHunk) > 0
                 THEN Append(hunks, [newStart |-> currentHunkInfo.newStart,
                                     newLines |-> currentHunkInfo.newLines,
                                     content |-> joinLines(currentHunk)])
                 ELSE hunks
    IN  IF lines = <<>> THEN saved
        ELSE LET line == Head(lines)
             IN  IF hunkMatch(line)
                 THEN parseLines(Tail(lines), saved, <<line>>,
                                 [set |-> TRUE,
                                  newStart |-> line[1].newStart,
                                  newLines |-> IF line[1].newLines = OmittedCount
                                               THEN 1 ELSE line[1].newLines])
                 ELSE IF currentHunkInfo.set
                 THEN parseLines(Tail(lines), hunks, Append(currentHunk, line),
                                 currentHunkInfo)
                 ELSE parseLines(Tail(lines), hunks, currentHunk, currentHunkInfo)

parseHunks(diff) == parseLines(splitLines(diff), <<>>, <<>>, NoHunkInfo)

\* variant of getFileDiffHunk whose range includes newStart + newLines
getFileDiffHunk_inclusive(execOk, stdout, lineNumber) ==
    IF ~execOk THEN <<>>
    ELSE IF trim(stdout) = <<>> THEN <<>>
    ELSE IF lineNumber = 0 THEN trim(stdout)
    ELSE LET hunks == parseHunks(stdout)
             found == { i \in 1..Len(hunks) :
                          /\ lineNumber >= hunks[i].newStart
                          /\ lineNumber <= hunks[i].newStart + hunks[i].newLines }
         IN  IF found = {} THEN trim(stdout)
             ELSE hunks[CHOOSE i \in found : \A j \in found : i <= j].content

\* getFileDiffHunk(repoPath, targetBranch, filePath, lineNumber): execOk is
\* whether git fetch and git diff both succeed, stdout is the output of git
\* diff, lineNumber is 0 when no line is given
getFileDiffHunk(execOk, stdout, lineNumber) ==
    IF ~execOk THEN <<>>
    ELSE IF trim(stdout) = <<>> THEN <<>>
    ELSE IF lineNumber = 0 THEN trim(stdout)
    ELSE LET hunks == parseHunks(stdout)
             found == { i \in 1..Len(hunks) :
                          /\ lineNumber >= hunks[i].newStart
                          /\ lineNumber < hunks[i].newStart + hunks[i].newLines }
         IN  IF found = {} THEN trim(stdout)
             ELSE hunks[CHOOSE i \in found : \A j \in found : i <= j].content

\* the k-th hunk of a diff: its header and its lines.  The new-file ranges of
\* the hunks of one diff follow each other without overlap
HunkStarts(k) == {3 * k - 2, 3 * k - 1}
HunkCounts == {OmittedCount, 0, 2}
HunkBodies == { <<TextLine("+new")>>, <<TextLine("-old"), BlankContext>> }
HunksAt(k) ==
    { <<HunkHeader(st, c)>> \o body :
        st \in HunkStarts(k), c \in HunkCounts, body \in HunkBodies }

\* the lines git diff prints before the first hunk
DiffHeader == <<TextLine("diff --git"), TextLine("+++ b/file")>>

RECURSIVE DiffLines(_)
DiffLines(n) ==
    IF n = 0 THEN {DiffHeader}
    ELSE { d \o h : d \in DiffLines(n - 1), h \in HunksAt(n) }

\* the outputs of git diff: nothing, or the lines each ended by a newline
DiffOutputs ==
    {<<>>} \cup
    { joinLines([i \in 1..Len(d) |-> <<d[i]>>]) \o <<NL>> :
        d \in UNION { DiffLines(n) : n \in 0..MaxHunks } }

LineNumbers == 0..(3 * MaxHunks + 1)

(* getUserPrompt *)
\* String.prototype.trim on a text given character by character
RECURSIVE trimStart(_)
trimStart(s) == IF s # <<>> /\ Head(s) = " " THEN trimStart(Tail(s)) ELSE s
RECURSIVE trimEnd(_)
trimEnd(s) ==
    IF s # <<>> /\ s[Len(s)] = " " THEN trimEnd(SubSeq(s, 1, Len(s) - 1)) ELSE s
trimText(s) == trimEnd(trimStart(s))

\* thread.threadContext as getUserPrompt uses it: no file path, or a file path
\* with a line and the hunk getFileDiffHunk returned for it
NoCommentContext == [filePath |-> "", line |-> 0, diffHunk |-> <<>>]
CommentContexts ==
    {NoCommentContext} \cup
    { [filePath |-> "src/a.ts", line |-> 1, diffHunk |-> h] :
        h \in { getFileDiffHunk(FALSE, <<>>, 1),
                getFileDiffHunk(TRUE, <<HunkHeader(1, 2), NL, TextLine("+new"), NL>>, 1) } }

\* the comment texts getUserPrompt is called with: at most MaxPieces - 1
\* fragments
PromptTexts ==
    { Join(ps) : ps \in UNION { [1..n -> TextPieces] : n \in 0..(MaxPieces - 1) } }

\* getUserPrompt(triggerCtx, workspace, pr): the error it throws ("" for none)
\* and the prompt it returns: which template, the comment body it carries and
\* the comment context it appends
getUserPrompt(hasComment, hasThread, content, commentContext) ==
    LET commentBody == trimText(content)
        none == [error |-> "", template |-> "", body |-> <<>>,
                 context |-> NoCommentContext]
    IN  IF ~hasComment
        THEN [none EXCEPT !.error = "Comment is required to build user prompt."]
        ELSE IF ~hasThread
        THEN [none EXCEPT !.error = "Thread is required to build user prompt."]
        ELSE IF commentBody = COMMAND_TRIGGER_KEYWORDS[2]
                \/ commentBody = COMMAND_TRIGGER_KEYWORDS[1]
        THEN IF commentContext.filePath # ""
             THEN [none EXCEPT !.template = "Review this code change",
                               !.context = commentContext]
             ELSE [none EXCEPT !.template = "Summarize this thread"]
        ELSE IF includes(commentBody, COMMAND_TRIGGER_KEYWORDS[2])
                \/ includes(commentBody, COMMAND_TRIGGER_KEYWORDS[1])
        THEN IF commentContext.filePath # ""
             THEN [none EXCEPT !.template = "commentBody with context",
                               !.body = commentBody, !.context = commentContext]
             ELSE [none EXCEPT !.template = "commentBody", !.body = commentBody]
        ELSE [none EXCEPT !.error = "Comment must contain '/opencode' or '/oc' trigger"]

\* directory trees on disk: a directory is there only with its parent
FsPaths == { <<"ws">>, WorkspaceDir(<<"ws">>), <<"tmp">> }
FsTrees ==
    { files \in SUBSET FsPaths :
        \A p \in files : Len(p) > 1 => SubSeq(p, 1, Len(p) - 1) \in files }

\* the directories cleanupWorkspace is called with: workspacePath (review,
\* before the clone) and the clone directory (teardown)
CleanupDirs == { <<"ws">>, WorkspaceDir(<<"ws">>) }

Calls ==
    { [fn |-> "validateTrigger", args |-> <<t, m>>] :
          t \in CommentTexts, m \in {"command", "review"} }
    \cup { [fn |-> "resolveModeFromComment", args |-> <<t>>] : t \in CommentTexts }
    \cup { [fn |-> "sendPrompt", args |-> <<parts>>] : parts \in ResponseParts }
    \cup { [fn |-> "resolveAgent", args |-> <<agent, listing>>] :
              agent \in RequestedAgents, listing \in AgentListings }
    \cup { [fn |-> "getFileDiffHunk", args |-> <<ok, out, n>>] :
              ok \in BOOLEAN, out \in DiffOutputs, n \in LineNumbers }
    \cup { [fn |-> "getUserPrompt", args |-> <<TRUE, TRUE, t, ctx>>] :
              t \in PromptTexts, ctx \in CommentContexts }
    \cup { [fn |-> "getUserPrompt", args |-> <<hasComment, hasThread, <<>>, NoCommentContext>>] :
              hasComment \in BOOLEAN, hasThread \in BOOLEAN }
    \cup { [fn |-> "cleanupWorkspace", args |-> <<files, d, ok1, ok2>>] :
              files \in FsTrees, d \in CleanupDirs, ok1 \in BOOLEAN, ok2 \in BOOLEAN }

InitFn ==
    /\ call \in Calls
    /\ ret = <<>>
    /\ runConfig = NoRunConfig
    /\ triggerContext = {}
    /\ config = NoConfig
    /\ pc = "call"
    /\ prComments = {}
    /\ RunnerIdle

Return(v) ==
    /\ ret' = v
    /\ pc' = "returned"
    /\ UNCHANGED <<runConfig, triggerContext, call, config, err, prComments, log,
                   RunnerVars>>

\* validateTrigger(content, mode)
CallValidateTrigger ==
    /\ pc = "call"
    /\ call.fn = "validateTrigger"
    /\ Return(<<validateTrigger(call.args[1], call.args[2])>>)

\* resolveModeFromComment({ comment }, undefined)
CallResolveModeFromComment ==
    /\ pc = "call"
    /\ call.fn = "resolveModeFromComment"
    /\ LET r == resolveModeFromComment({[content |-> call.args[1]]}, "")
       IN  Return(<<r.mode, r.error>>)

\* sendPrompt, the prompt request answered with status 200 and these parts
CallSendPrompt ==
    /\ pc = "call"
    /\ call.fn = "sendPrompt"
    /\ LET r == sendPrompt("", [rejected |-> FALSE, hasData |-> FALSE, data |-> <<>>],
                           TRUE, 200, call.args[1])
       IN  Return(<<r.text, r.error>>)

\* resolveAgent(client, config.agent)
CallResolveAgent ==
    /\ pc = "call"
    /\ call.fn = "resolveAgent"
    /\ LET a == resolveAgent(call.args[1], call.args[2])
       IN  Return(<<a.agent, a.error, a.fetched>>)

\* getFileDiffHunk(workspace, targetBranch, filePath, line)
CallGetFileDiffHunk ==
    /\ pc = "call"
    /\ call.fn = "getFileDiffHunk"
    /\ Return(getFileDiffHunk(call.args[1], call.args[2], call.args[3]))

\* cleanupWorkspace(d); cleanupWorkspace(d): the tree and the outcome after the
\* first call and after the second
CallCleanupWorkspace ==
    /\ pc = "call"
    /\ call.fn = "cleanupWorkspace"
    /\ LET once  == cleanupWorkspaceOn(call.args[1], call.args[2], call.args[3])
           twice == cleanupWorkspaceOn(once.fs, call.args[2], call.args[4])
       IN  Return(<<once.fs, once.outcome, twice.fs, twice.outcome>>)

\* getUserPrompt(commandTrigger, workspace, pr)
CallGetUserPrompt ==
    /\ pc = "call"
    /\ call.fn = "getUserPrompt"
    /\ LET r == getUserPrompt(call.args[1], call.args[2], call.args[3], call.args[4])
       IN  Return(<<r.error, r.template, r.body, r.context>>)

NextFn ==
    \/ CallGetUserPrompt
    \/ CallCleanupWorkspace
    \/ CallValidateTrigger
    \/ CallResolveModeFromComment
    \/ CallSendPrompt
    \/ CallResolveAgent
    \/ CallGetFileDiffHunk

SpecFn == InitFn /\ [][NextFn]_vars

(* ======================================================================= *)
(*                         properties of a run                             *)
(* ======================================================================= *)
Count(seq, x) == Cardinality({i \in 1..Len(seq) : seq[i] = x})
Has(x) == \E i \in 1..Len(log) : log[i] = x
Mentions(content, piece) == \E i \in 1..Len(content) : content[i] = piece

\* the run went past the argument guard of runCommand into the try block
EnteredTry == ~(config.mode = "command" /\ ~config.hasTrigger)
Ended == pc = "done" /\ EnteredTry

\* thread statuses that close a thread: fixed, wontFix, closed, byDesign
ClosedStatuses == {statusMap("fixed"), statusMap("wontFix"), statusMap("closed"),
                   statusMap("byDesign")}

\* replies written by the run whose content is no longer the announce text
OutcomeComments ==
    {c \in prComments : c.id # config.commentId /\ c.content # <<AnnounceText, footer>>}

\* final outcome messages (results or failure explanations) on the pull request
NumOutcomeMessages == Cardinality(OutcomeComments) + Len(prThreads)

CloneAttempted == Has("clone") \/ Has("clone-failed")
RemovalAttempted == Has("cleanup") \/ Has("cleanup-failed")

\* C1: when a run with at most one failing step has ended, exactly one final
\* outcome message (result or failure explanation) is on the pull request.
C1_ExactlyOneOutcomeMessage ==
    (Ended /\ Len(failed) <= 1) => NumOutcomeMessages = 1

\* C2: a command-mode run in which a step after the announce reply failed has,
\* when it ends, replaced the announce reply by an explanation of that failure
\* and has run teardown.
C2_CommandFailureEditsReply ==
    (Ended /\ config.mode = "command" /\ failed # <<>> /\ replyCommentId # 0) =>
        /\ \E c \in prComments :
              c.id = replyCommentId /\ Mentions(c.content, failed[1].error)
        /\ opencode => proc = "killed"

\* C3: a headless review run in which the agent returned its final text ends
\* with exactly one new thread, of closed status, containing that text.
C3_HeadlessReviewCreatesClosedThread ==
    (Ended /\ config.mode = "review" /\ commentTrigger /\ failed = <<>>) =>
        /\ Len(prThreads) = 1
        /\ prThreads[1].status \in ClosedStatuses
        /\ Mentions(prThreads[1].content, response)

C5_SuccessEditsAnnounceReply ==
    (Ended /\ config.hasTrigger /\ failed = <<>>) =>
        /\ replyCommentId \notin {0, config.commentId}
        /\ prThreads = <<>>
        /\ prComments = TriggerThread(config) \cup
              {[id |-> replyCommentId, threadId |-> config.threadId,
                parentCommentId |-> config.commentId,
                content |-> <<response, footer>>]}

W_C5_ReplyHoldsResult ==
    /\ Ended /\ config.hasTrigger /\ failed = <<>>
    /\ outcome = "returned"
    /\ response = "LGTM" /\ footer # ""
    /\ Has("edit-result")

\* C6: a run that attempted a clone has, when it ends, attempted a removal of
\* the clone directory (of it or of the directory holding it, at any point of
\* the run), also when the clone failed.
C6_RemovalAttemptedWhenCloned ==
    (Ended /\ CloneAttempted) =>
        (RemovalAttempted \/ Has("preclean") \/ Has("preclean-failed"))

\* C7: the subprocess is spawned at most once, never sent more than one
\* termination, and a run that spawned it has sent exactly one when it ends.
C7_SubprocessKilledExactlyOnce ==
    /\ Count(log, "spawn") <= 1
    /\ Count(log, "kill") <= Count(log, "spawn")
    /\ (Ended /\ Has("spawn")) => (Count(log, "kill") = 1 /\ proc = "killed")

W_C7_KilledAfterLateFailure ==
    /\ Ended /\ Has("spawn") /\ Has("kill")
    /\ failed # <<>> /\ failed[1].step = "push"

\* C8: the clone is attempted at most once, and once it has failed no
\* subprocess is spawned, no session created, no prompt sent, and the run
\* ends raising.
C8_CloneOnceAndFatal ==
    /\ Count(log, "clone") + Count(log, "clone-failed") <= 1
    /\ Has("clone-failed") =>
          /\ ~opencode /\ proc = "none" /\ ~Has("spawn")
          /\ session = ""
          /\ ~Has("prompt")
          /\ failed # <<>>
          /\ pc = "done" => outcome = "raised"

W_C8_CloneFailed == Ended /\ Has("clone-failed") /\ outcome = "raised"

\* C9: a run in which a workspace removal failed ends as it would have
\* without that failure: returning when no step failed, raising the error of
\* the failed step otherwise.
C9_CleanupFailureKeepsOutcome ==
    (Ended /\ (Has("cleanup-failed") \/ Has("preclean-failed"))) =>
        /\ failed = <<>> => (outcome = "returned" /\ err = "")
        /\ failed # <<>> => (outcome = "raised" /\ err = failed[Len(failed)].error)

W_C9_ReturnedDespiteRmFailure ==
    Ended /\ Has("cleanup-failed") /\ failed = <<>> /\ outcome = "returned"

\* C10: a run in which a step of the try block failed never returns normally;
\* it raises, and only once the subprocess (if spawned) has been terminated
\* and the owned workspace (if any) has had its removal attempted.
C10_FailureRaisesAfterTeardown ==
    /\ outcome # "running" => pc = "done"
    /\ failed # <<>> => outcome # "returned"
    /\ (Ended /\ failed # <<>>) =>
          /\ outcome = "raised"
          /\ opencode => (proc = "killed" /\ Has("kill"))
          /\ OwnsWorkspace => RemovalAttempted

W_C10_RaisedAfterTeardown ==
    /\ Ended /\ failed # <<>> /\ outcome = "raised"
    /\ Has("kill") /\ Has("cleanup")

(* ======================================================================= *)
(*                  configuration and trigger validation                   *)
(* ======================================================================= *)
ValidationErrors == {"no-review-keyword", "contains-review-trigger", "no-command-keyword"}

\* the run failed because validateTrigger rejected the trigger comment
TriggerInvalid ==
    \/ failed # <<>> /\ failed[1].step = "validate"
    \/ pc = "rejected" /\ err \in ValidationErrors

\* resolveRunConfig failed because the project or the repository id is missing
ConfigIncomplete ==
    /\ pc = "rejected"
    /\ runConfig.project = "" \/ runConfig.repositoryId = ""

\* no reply was posted to the pull request
NoReplyWritten ==
    /\ \A c \in prComments : c.parentCommentId = 0
    /\ ~Has("announce") /\ ~Has("edit-result") /\ ~Has("edit-failure")

\* no directory was created or removed, and removal was not even attempted
WorkspaceUntouched ==
    /\ workspace = <<>>
    /\ ~CloneAttempted /\ ~RemovalAttempted
    /\ ~Has("preclean") /\ ~Has("preclean-failed")

\* the agent subprocess was never spawned
NoAgentSpawned == proc = "none" /\ ~opencode /\ ~Has("spawn")

\* C11 as stated: a run whose trigger comment fails validation for its mode, or
\* whose configuration lacks the project or the repository id, has written
\* nothing to the pull request, has created or removed no workspace and has
\* spawned no agent subprocess.
C11_FailsBeforeAnySideEffect ==
    (TriggerInvalid \/ ConfigIncomplete) =>
        /\ NoReplyWritten /\ prThreads = <<>>
        /\ WorkspaceUntouched
        /\ NoAgentSpawned

\* C11, amended: such a run posts no reply, touches no workspace and spawns no
\* agent subprocess; resolveRunConfig and runCommand write nothing to the pull
\* request, while runCodeReview, whose validation sits inside the try block
\* after the `opencode --version` probe, writes at most the one closed failure
\* thread of its catch clause.
C11_FailsBeforeWorkspaceAndAgent ==
    (TriggerInvalid \/ ConfigIncomplete) =>
        /\ NoReplyWritten
        /\ WorkspaceUntouched
        /\ NoAgentSpawned
        /\ IF config.mode = "review" /\ pc \in {"finally", "cleanup", "done"}
           THEN /\ Len(prThreads) <= 1
                /\ \A i \in 1..Len(prThreads) :
                       /\ prThreads[i].status = STATUS_FIXED
                       /\ Mentions(prThreads[i].content, failed[1].error)
                /\ (failed[Len(failed)].step # "deliver") => Len(prThreads) = 1
           ELSE prThreads = <<>>
        /\ (failed # <<>>) => log[1] = "version-probe"

\* a review run on a comment without a review keyword has ended, and the
\* failure thread is on the pull request
W_C11_InvalidReviewTriggerReported ==
    /\ pc = "done" /\ config.mode = "review"
    /\ failed # <<>> /\ failed[1].step = "validate"
    /\ Len(prThreads) = 1

\* labels of resolveRunConfig; every other label belongs to a mode runner
ResolverLabels == {"resolveRunConfig", "getThread", "resolveMode", "validateResolved",
                   "resolved", "rejected"}
InRunner == pc \notin ResolverLabels

\* the resolved configuration has the thread, the comment and both ids
ThreadAndCommentPresent ==
    config.hasTrigger /\ config.threadId # 0 /\ config.commentId # 0

\* C12: runCommand called with a configuration that lacks the thread, the
\* comment, the thread id or the comment id raises at once, with no reply
\* posted, no clone and no subprocess; so a command run that has done anything
\* has both thread and comment.
C12_CommandNeedsThreadAndComment ==
    (InRunner /\ config.mode = "command") =>
        /\ ~ThreadAndCommentPresent =>
              /\ pc \in {"start", "done"}
              /\ pc = "done" => outcome = "raised"
              /\ log = <<>> /\ failed = <<>>
              /\ prComments = TriggerThread(config) /\ prThreads = <<>>
              /\ WorkspaceUntouched /\ NoAgentSpawned
        /\ (log # <<>> \/ pc \notin {"start", "done"}) => ThreadAndCommentPresent

\* runCommand was called with only a thread id and has raised
W_C12_RaisedWithoutComment ==
    /\ InRunner /\ config.mode = "command"
    /\ config.threadId # 0 /\ ~config.hasTrigger
    /\ pc = "done" /\ outcome = "raised"

\* resolveRunConfig is past (or at) its project and repository id checks
InResolver == pc \in ResolverLabels

\* C16: with an explicit mode and without both trigger ids, resolveRunConfig
\* returns the explicit mode; it asks for no thread, reads no comment and
\* does not run validateTrigger.
C16_ExplicitModeWithoutComment ==
    (InResolver /\ explicitMode /\ ~hasTriggerIds) =>
        /\ pc \in {"resolveRunConfig", "resolveMode", "resolved", "rejected"}
        /\ pc = "rejected" => ConfigIncomplete
        /\ ~Has("getPullRequestThread") /\ ~Has("validateTrigger")
        /\ triggerContext = {}
        /\ pc = "resolved" =>
              /\ config.mode = runConfig.mode
              /\ ~config.hasTrigger /\ config.content = <<>>

\* review was given explicitly, no id was given, and review was returned
W_C16_ExplicitReviewResolved ==
    /\ pc = "resolved"
    /\ runConfig.mode = "review" /\ runConfig.threadId = 0 /\ runConfig.commentId = 0
    /\ config.mode = "review"
    /\ log = <<"resolveModeFromComment">>

\* C17: without an explicit mode and without both trigger ids resolveRunConfig
\* fails, before any request to the pull-request API; a configuration it
\* returns always has mode command or review.
C17_ModeOrTriggerIdsRequired ==
    /\ (InResolver /\ ~explicitMode /\ ~hasTriggerIds) =>
          /\ pc \in {"resolveRunConfig", "rejected"}
          /\ log = <<>>
          /\ pc = "rejected" =>
                \/ ConfigIncomplete
                \/ err = "threadId and commentId inputs are required when 'mode' is not specified"
    /\ pc = "resolved" => config \in Configs

\* only the thread id was given, without a mode: resolveRunConfig has failed
W_C17_RejectedWithOneId ==
    /\ pc = "rejected" /\ ~ConfigIncomplete
    /\ runConfig.mode = "" /\ runConfig.threadId # 0 /\ runConfig.commentId = 0
    /\ log = <<>>

(* ======================================================================= *)
(*                      workspace and agent connection                     *)
(* ======================================================================= *)
\* C18 as stated: in a run with skipClone set no clone is performed, the
\* workspace is the supplied path, no removal of it is attempted before the
\* agent runs or at teardown, and an empty supplied path makes the run fail.
C18_SkipCloneUsesSuppliedPath ==
    (InRunner /\ config.skipClone) =>
        /\ ~CloneAttempted
        /\ workspace \in {<<>>, config.workspacePath}
        /\ ~RemovalAttempted
        /\ ~Has("preclean") /\ ~Has("preclean-failed")
        /\ (Ended /\ config.workspacePath = <<>>) => outcome = "raised"

\* C19: waitForConnection returns on the first liveness attempt that succeeds,
\* whichever of the 30 attempts that is, and makes no attempt after it; after
\* 30 failed attempts it throws the connection error without a 31st attempt.
C19_ConnectionRetryBound ==
    /\ [](attempt \in 0..CONNECTION_MAX_RETRIES)
    /\ [](pc # "connect" => attempt = 0)
    /\ [][pc = "connect" =>
            /\ pc' \in {"connect", "session", "catch"}
            /\ pc' = "session" => (attempt < CONNECTION_MAX_RETRIES /\ failed' = failed)
            /\ pc' = "connect" => (attempt < CONNECTION_MAX_RETRIES /\ attempt' = attempt + 1)
            /\ pc' = "catch" =>
                  /\ attempt = CONNECTION_MAX_RETRIES
                  /\ err' = "Failed to connect to opencode server"
            /\ attempt = CONNECTION_MAX_RETRIES => pc' = "catch"]_vars

\* every attempt of waitForConnection has failed and the error was thrown
W_C19_ConnectionGivenUp ==
    /\ failed # <<>>
    /\ failed[1] = [step |-> "connect", error |-> "Failed to connect to opencode server"]
    /\ proc = "running"

(* ======================================================================= *)
(*                     properties of the pure functions                    *)
(* ======================================================================= *)
\* word occurs in text when letter case is ignored
ContainsIgnoringCase(text, word) ==
    \E i \in 1..Len(text) :
        /\ i + Len(word) - 1 <= Len(text)
        /\ \A j \in 1..Len(word) : LowerChar(text[i + j - 1]) = LowerChar(word[j])

HasReviewKeyword(text) ==
    \E k \in 1..Len(REVIEW_TRIGGER_KEYWORDS) :
        ContainsIgnoringCase(text, REVIEW_TRIGGER_KEYWORDS[k])

HasCommandKeyword(text) ==
    \E k \in 1..Len(COMMAND_TRIGGER_KEYWORDS) :
        ContainsIgnoringCase(text, COMMAND_TRIGGER_KEYWORDS[k])

Returned(fn) == pc = "returned" /\ call.fn = fn

\* C13: validateTrigger(content, "review") fails exactly when the text holds
\* no review keyword, letter case ignored; command keywords do not matter.
C13_ReviewValidation ==
    (Returned("validateTrigger") /\ call.args[2] = "review") =>
        ((ret[1] # "ok") <=> ~HasReviewKeyword(call.args[1]))

\* a review keyword written in capitals passes; the text holds "/OC" as well
W_C13_CapitalReviewKeywordPasses ==
    /\ Returned("validateTrigger") /\ call.args[2] = "review"
    /\ call.args[1] = <<"/","O","C","-","R","e","v","i","e","w"," ","x">>
    /\ ret = <<"ok">>

\* C14: validateTrigger(content, "command") fails when the text holds a review
\* keyword, fails when it holds no command keyword, and passes exactly when
\* it holds a command keyword and no review keyword.
C14_CommandValidation ==
    (Returned("validateTrigger") /\ call.args[2] = "command") =>
        /\ HasReviewKeyword(call.args[1]) => ret[1] # "ok"
        /\ ~HasCommandKeyword(call.args[1]) => ret[1] # "ok"
        /\ (ret[1] = "ok") <=>
              (HasCommandKeyword(call.args[1]) /\ ~HasReviewKeyword(call.args[1]))

\* a command-mode validation rejected a text that holds a review keyword (and
\* so a command keyword too)
W_C14_ReviewKeywordRejected ==
    /\ Returned("validateTrigger") /\ call.args[2] = "command"
    /\ HasReviewKeyword(call.args[1]) /\ HasCommandKeyword(call.args[1])
    /\ ret = <<"contains-review-trigger">>

\* C15: without an explicit mode, inference returns command for a text with a
\* command keyword and no review keyword, review for a text with a review
\* keyword, and fails for a text with a keyword of neither group; the mode
\* inferred passes validateTrigger on the same text.
C15_InferredModeIsValid ==
    Returned("resolveModeFromComment") =>
        LET text == call.args[1]
        IN  /\ (HasCommandKeyword(text) /\ ~HasReviewKeyword(text)) =>
                  ret = <<"command", "">>
            /\ HasReviewKeyword(text) => ret = <<"review", "">>
            /\ (~HasCommandKeyword(text) /\ ~HasReviewKeyword(text)) =>
                  (ret[1] = "" /\ ret[2] # "")
            /\ ret[2] = "" => validateTrigger(text, ret[1]) = "ok"

\* review was inferred from "/opencode-Review x", which holds "/opencode" too
W_C15_ReviewInferred ==
    /\ Returned("resolveModeFromComment")
    /\ call.args[1] = <<"/","o","p","e","n","c","o","d","e",
                        "-","R","e","v","i","e","w"," ","x">>
    /\ ret = <<"review", "">>

\* positions of the text parts of a part list
TextPositions(parts) == {i \in 1..Len(parts) : parts[i].type = "text"}

\* C20: sendPrompt returns the text of the last part of type text, whatever
\* tool parts stand before or after it, and "" when there is no text part.
C20_LastTextPartReturned ==
    Returned("sendPrompt") =>
        LET parts == call.args[1]
            at == TextPositions(parts)
        IN  /\ ret[2] = ""
            /\ IF at = {} THEN ret[1] = ""
               ELSE ret[1] = parts[CHOOSE i \in at : \A j \in at : j <= i].text

\* two text parts and a trailing tool part: the second text is returned
W_C20_LastOfTwoTexts ==
    /\ Returned("sendPrompt")
    /\ call.args[1] = <<TextPart("a"), TextPart("b"), ToolPart>>
    /\ ret = <<"b", "">>

(* ------------------------ prompts and their results --------------------- *)
\* the step of the run that sent the i-th prompt
PromptStep(i) == IF i = 1 THEN "prompt" ELSE "summary"

\* the text the run kept from the i-th prompt
PromptText(i) == IF i = 1 THEN response ELSE summary

\* C21: a prompt response whose status is not 200 is fatal: sendPrompt raises
\* the status error and returns no text, no later prompt, commit or final edit
\* happens, and the run ends by raising.
C21_NonSuccessStatusIsFatal ==
    \A i \in 1..Len(prompts) :
        prompts[i].status \notin {0, 200} =>
            /\ i = Len(prompts)
            /\ failed # <<>>
            /\ failed[1] = [step |-> PromptStep(i),
                            error |-> PromptFailed(prompts[i].status)]
            /\ PromptText(i) = ""
            /\ pc \in {"catch", "finally", "cleanup", "done"}
            /\ outcome # "returned"
            /\ pc = "done" => outcome = "raised"
            /\ ~Has("edit-result")
            /\ commits = <<>>

W_C21_CreatedStatusRaised ==
    /\ pc = "done"
    /\ Len(prompts) = 2
    /\ prompts[2].status = 201
    /\ outcome = "raised"

(* --------------------------- agent resolution --------------------------- *)
\* the agent list was obtained and holds a primary agent of this name
IsPrimaryAgent(listing, name) ==
    /\ ~listing.rejected
    /\ listing.hasData
    /\ \E i \in 1..Len(listing.data) : listing.data[i] = PrimaryAgent(name)

\* C22: resolveAgent never fails; it yields the requested name when that name
\* is a primary agent of the list and the default agent in every other case
\* (unknown name, sub-agent, list not obtained), and it does not ask for the
\* list when no agent is requested.
C22_AgentResolutionNeverFails ==
    Returned("resolveAgent") =>
        LET agent == call.args[1]
            listing == call.args[2]
        IN  /\ ret[2] = ""
            /\ ret[1] = IF agent # "" /\ IsPrimaryAgent(listing, agent)
                        THEN agent ELSE ""
            /\ ret[3] = (agent # "")

(* ---------------------------- commit and push --------------------------- *)
\* the steps of command mode from the first prompt to the final edit
PromptEvents == {"prompt", "changes", "no-changes", "commit", "push", "edit-result"}
PromptLog == SelectSeq(log, LAMBDA x : x \in PromptEvents)

IsPrefix(a, b) == Len(a) <= Len(b) /\ SubSeq(b, 1, Len(a)) = a

WithChanges == <<"prompt", "changes", "prompt", "commit", "push", "edit-result">>
WithoutChanges == <<"prompt", "no-changes", "edit-result">>

\* C26: in command mode the steps after the first prompt come in the order
\* summary prompt, commit, push, final edit when the tree has changes, and the
\* final edit alone when it has none; the branch taken is the one the state of
\* the tree selects; a failure of any of these steps leaves the reply unedited.
C26_CommitAndPushIffChanges ==
    /\ [](config.mode = "command" =>
            /\ IsPrefix(PromptLog, WithChanges) \/ IsPrefix(PromptLog, WithoutChanges)
            /\ Len(commits) = Count(log, "commit")
            /\ (\E i \in 1..Len(failed) :
                    failed[i].step \in {"prompt", "status", "summary", "commit", "push"})
                  => ~Has("edit-result"))
    /\ [][(config.mode = "command" /\ pc = "status" /\ pc' # "catch")
             => /\ dirty <=> Has("changes")'
                /\ ~dirty <=> Has("no-changes")']_vars

W_C26_CommittedPushedThenEdited ==
    /\ config.mode = "command"
    /\ pc = "done"
    /\ PromptLog = WithChanges

W_C26_EditedWithoutCommit ==
    /\ config.mode = "command"
    /\ pc = "done"
    /\ PromptLog = WithoutChanges

\* `Summarize the following in less than 40 characters:`
SUMMARY_CHARACTERS == 40

\* C27: every commit message passed to commitChanges is at most 40 characters
\* long.
C27_CommitMessageAtMost40 ==
    \A i \in 1..Len(commits) : Len(commits[i]) <= SUMMARY_CHARACTERS

(* ----------------------------- announce reply --------------------------- *)
\* a pull-request fetch, a removal or clone of the workspace, or the spawn of
\* the agent subprocess has begun
WorkBegun ==
    \/ \E f \in FetchNames : fetch[f] # "idle"
    \/ CloneAttempted \/ Has("preclean") \/ Has("preclean-failed")
    \/ Has("spawn") \/ proc # "none"

\* C29: a comment-activated run posts its announce reply once, after its
\* trigger has passed validation and before any pull-request fetch, any clone
\* and the spawn of the agent subprocess; a headless review run never posts
\* one.
C29_AnnounceAfterValidationBeforeWork ==
    InRunner =>
        /\ Count(log, "announce") <= 1
        /\ Has("announce") =>
               /\ config.hasTrigger
               /\ validateTrigger(config.content, config.mode) = "ok"
        /\ (config.hasTrigger /\ WorkBegun) => Has("announce")
        /\ pc = "announce" => ~WorkBegun
        /\ ~config.hasTrigger =>
               /\ ~Has("announce")
               /\ replyCommentId = 0
               /\ \A c \in prComments : c.parentCommentId = 0

W_C29_AnnouncedThenSpawned ==
    /\ config.hasTrigger
    /\ Has("announce")
    /\ Has("spawn")

W_C29_HeadlessReviewDone ==
    /\ config.mode = "review"
    /\ ~config.hasTrigger
    /\ pc = "done"
    /\ Has("spawn")

(* -------------------------------- session ------------------------------- *)
\* C30: a run creates its session once, after the connection wait has
\* succeeded and before any prompt; the session id never changes afterwards,
\* every prompt of the run names it, and the event reader is started with it.
C30_OneSessionPerRun ==
    /\ [](InRunner =>
            /\ session # "" => Count(log, "connected") = 1
            /\ reader # "none" => session # ""
            /\ \A i \in 1..Len(prompts) :
                   prompts[i].session = session /\ session # "")
    /\ [][session' # session =>
             /\ pc = "session"
             /\ session = ""
             /\ prompts = <<>> /\ reader = "none"]_vars

W_C30_TwoPromptsOneSession ==
    /\ pc = "done"
    /\ Len(prompts) = 2
    /\ prompts[1].session = "ses_2"
    /\ prompts[2].session = "ses_2"

(* ------------------------------- diff hunks ----------------------------- *)
\* the positions of the hunk header lines in the output of git diff
HeaderPositions(stdout) == { i \in 1..Len(stdout) : stdout[i].kind = "hunk" }

\* the last position of the hunk whose header is at position i: the end of the
\* line before the next hunk header, or the end of the output
HunkEnd(stdout, i) ==
    LET later == { j \in HeaderPositions(stdout) : j > i }
    IN  IF later = {} THEN Len(stdout)
        ELSE (CHOOSE j \in later : \A k \in later : j <= k) - 2

\* line n lies in the new-file range of the header at position i
InNewRange(stdout, i, n) ==
    LET count == IF stdout[i].newLines = OmittedCount THEN 1 ELSE stdout[i].newLines
    IN  stdout[i].newStart <= n /\ n < stdout[i].newStart + count

\* text is the whole of stdout without the white space around it
IsWholeDiff(text, stdout) ==
    \E a \in 1..(Len(stdout) + 1), b \in 0..Len(stdout) :
        /\ text = SubSeq(stdout, a, b)
        /\ \A i \in 1..Len(stdout) : (i < a \/ i > b) => IsSpace(stdout[i])
        /\ text # <<>> => (~IsSpace(text[1]) /\ ~IsSpace(text[Len(text)]))

\* C28: when git diff gives a diff, getFileDiffHunk with a line number inside
\* the new-file range of a hunk returns that hunk, from its header line to the
\* line before the next hunk header (the end of the diff for the last hunk);
\* with a line number in no hunk's range, or with no line number, it returns
\* the whole diff.
C28_HunkOfLineOrWholeDiff ==
    (Returned("getFileDiffHunk") /\ call.args[1]) =>
        LET stdout == call.args[2]
            n == call.args[3]
            hits == { i \in HeaderPositions(stdout) : n # 0 /\ InNewRange(stdout, i, n) }
        IN  IF hits = {}
            THEN IsWholeDiff(ret, stdout)
            ELSE \A i \in hits : ret = SubSeq(stdout, i, HunkEnd(stdout, i))

\* line 4 is the first line of the second hunk and one past the first hunk
W_C28_SecondHunkReturned ==
    /\ Returned("getFileDiffHunk")
    /\ call.args[1]
    /\ call.args[3] = 4
    /\ Cardinality(HeaderPositions(call.args[2])) = 2
    /\ ret # <<>>
    /\ ret[1] = HunkHeader(4, 2)
    /\ \E i \in HeaderPositions(call.args[2]) : call.args[2][i] = HunkHeader(2, 2)

\* a line between two hunks gives the whole diff
W_C28_WholeDiffBetweenHunks ==
    /\ Returned("getFileDiffHunk")
    /\ call.args[1]
    /\ call.args[3] = 3
    /\ Cardinality(HeaderPositions(call.args[2])) = 2
    /\ ret # <<>>
    /\ ret[1] = DiffHeader[1]

(* ======================================================================= *)
(*                    properties of the event-stream reader                *)
(* ======================================================================= *)
\* the event a line carries, NoEvent when the line is no event
EventOf(line) ==
    IF Len(line) = 3 /\ line[2].k = "json-head" THEN line[2].evt ELSE NoEvent

\* lines whose processing fails: text that is no JSON, an event without its
\* part, a tool part without its state
FaultyLines ==
    { line \in StreamLines :
        \/ line = <<DataPrefix, NotJson>>
        \/ /\ EventOf(line).type = "message.part.updated"
           /\ \/ ~EventOf(line).hasPart
              \/ EventOf(line).partType = "tool" /\ ~EventOf(line).hasState }

\* the reader took a step
ReaderStepped == reader # "none" /\ StreamVars' # StreamVars

\* C23: no step of the event-stream reader changes a variable of the run,
\* whether the connection is refused, the response has no body, a read fails
\* or a line arrives; a line that is no JSON or whose event lacks its part or
\* its state prints nothing and leaves the reader reading.
C23_ReaderFailuresAreSwallowed ==
    [][ReaderStepped =>
         /\ UNCHANGED RunVars
         /\ (Len(received') > Len(received) /\ received'[Len(received')] \in FaultyLines)
               => (rendered' = rendered /\ reader' = "reading")]_vars

W_C23_FaultyLineAndRunReturned ==
    /\ pc = "done"
    /\ outcome = "returned"
    /\ reader = "ended"
    /\ received # <<>>
    /\ received[1] \in FaultyLines

\* the event of this line is one the reader is to print in session sid
Renderable(line, sid) ==
    LET e == EventOf(line)
    IN  /\ e.type = "message.part.updated"
        /\ e.hasPart
        /\ e.sessionID = sid
        /\ \/ e.partType = "tool" /\ e.hasState /\ e.status = "completed"
           \/ e.partType = "text" /\ e.end

\* what the reader prints for a renderable line
Shown(line) ==
    LET e == EventOf(line)
    IN  IF e.partType = "tool" THEN ToolLine(e.title) ELSE TextLines(e.text)

\* C24: what the reader has printed is, in order, the received lines whose
\* event is a part update of the current session with a completed tool part or
\* an ended text part, and nothing else.
C24_RenderedIsFilteredReceived ==
    reader # "none" =>
        LET wanted == SelectSeq(received, LAMBDA line : Renderable(line, session))
        IN  rendered = [i \in 1..Len(wanted) |-> Shown(wanted[i])]

\* C25: no step of the run waits for the reader: while the run has not ended
\* a step of the runner is enabled whatever the reader is doing, so the prompt,
\* the delivery of the result and the teardown go on with a reader that has
\* not connected, that is reading, or that never ends.
C25_RunNeverWaitsOnReader ==
    pc # "done" => ENABLED RunnerNext

W_C25_DoneWhileReaderReads ==
    /\ pc = "done"
    /\ outcome = "returned"
    /\ reader = "reading"
    /\ proc = "killed"

W_C25_DoneBeforeReaderConnects ==
    /\ pc = "done"
    /\ outcome = "returned"
    /\ reader = "connecting"

(* ======================================================================= *)
(*                     joins, teardown and termination                     *)
(* ======================================================================= *)
\* one of the three pull-request fetches has been issued and has not settled
FetchOutstanding == \E f \in FetchNames : fetch[f] = "pending"

\* C31: the three pull-request fetches are issued together and joined: while
\* one of them is outstanding the run is at the join and nowhere later (not at
\* the iteration-changes fetch, the clone, the spawn or the failure delivery),
\* and a fetch that failed makes the run end by raising.
C31_FetchesJoinedBeforeAnyLaterStep ==
    InRunner =>
        /\ FetchOutstanding => pc = "join"
        /\ pc = "join" => \A f \in FetchNames : fetch[f] # "idle"
        /\ ((\E f \in FetchNames : fetch[f] = "failed") /\ pc = "done")
              => outcome = "raised"

\* C32: a review run makes no commit and no push and never reaches the steps
\* that look for changes, summarise, commit or push, whether the agent left
\* changes in the working tree or not and whether the run succeeds or fails.
C32_ReviewNeverCommitsOrPushes ==
    (InRunner /\ config.mode = "review") =>
        /\ commits = <<>>
        /\ ~Has("commit") /\ ~Has("push")
        /\ ~Has("changes") /\ ~Has("no-changes")
        /\ pc \notin {"status", "summary", "commit", "push"}
        /\ Len(prompts) <= 1

W_C32_ReviewEndedWithChangedTree ==
    /\ config.mode = "review"
    /\ pc = "done"
    /\ outcome = "returned"
    /\ dirty

\* C34: cleanupWorkspace raises no error, neither on a directory that is not
\* there nor when called a second time; on a directory that is not there it
\* changes nothing, a second call after a successful one changes nothing more,
\* and two calls leave a tree that one call can leave.
C34_CleanupIdempotent ==
    Returned("cleanupWorkspace") =>
        LET files == call.args[1]
            d     == call.args[2]
        IN  /\ ret[2] = "returned" /\ ret[4] = "returned"
            /\ (\A p \in files : ~IsUnder(p, d)) => (ret[1] = files /\ ret[3] = files)
            /\ call.args[3] => ret[3] = ret[1]
            /\ ret[3] \in { rm(files, d, ok) : ok \in BOOLEAN }

W_C34_SecondCleanupOfRemovedDirectory ==
    /\ Returned("cleanupWorkspace")
    /\ call.args[2] \in call.args[1]
    /\ call.args[3] /\ call.args[4]
    /\ call.args[2] \notin ret[1]
    /\ ret[3] = ret[1]

DeliveryFailed == \E i \in 1..Len(failed) : failed[i].step = "deliver"

\* C35: a review run whose delivery of the failure explanation was rejected
\* still ends with the subprocess terminated if it was spawned, with
\* cleanupWorkspace called on an owned workspace (which is gone when the
\* removal succeeded), and by raising an error.
C35_TeardownAfterFailedDelivery ==
    (InRunner /\ config.mode = "review" /\ DeliveryFailed /\ pc = "done") =>
        /\ outcome = "raised"
        /\ err # ""
        /\ opencode => (proc = "killed" /\ Has("kill"))
        /\ OwnsWorkspace => RemovalAttempted
        /\ (OwnsWorkspace /\ Has("cleanup")) => \A p \in fs : ~IsUnder(p, workspace)

W_C35_FailedDeliveryWithSubprocessAndClone ==
    /\ config.mode = "review"
    /\ DeliveryFailed
    /\ pc = "done"
    /\ opencode
    /\ cleanupWorkspaceDir
    /\ Has("cleanup")

\* C36: when the teardown calls cleanupWorkspace the termination of a spawned
\* subprocess has already been requested, every prompt request made has ended
\* (answered or rejected) and none is made afterwards; the removal before the clone
\* happens before any subprocess exists.
C36_KillBeforeRemovalNoPromptOutstanding ==
    InRunner =>
        \A i \in 1..Len(log) :
            /\ log[i] \in {"cleanup", "cleanup-failed"} =>
                  /\ opencode => \E j \in 1..(i - 1) : log[j] = "kill"
                  /\ \A j \in (i + 1)..Len(log) : log[j] \notin {"prompt", "spawn"}
                  /\ Len(prompts) <= Count(log, "prompt")
            /\ log[i] \in {"preclean", "preclean-failed"} =>
                  \A j \in 1..(i - 1) : log[j] \notin {"spawn", "prompt"}

W_C36_RemovalAfterPromptAndKill ==
    /\ pc = "done"
    /\ Len(prompts) >= 1
    /\ Has("kill")
    /\ Has("cleanup")
    /\ proc = "killed"

\* the trigger comment does not fit the mode of the run
TriggerMismatch ==
    config.hasTrigger /\ validateTrigger(config.content, config.mode) # "ok"

\* C40: resolveRunConfig returns an explicit mode without running
\* validateTrigger, and a mode run whose trigger comment does not fit its mode
\* gets no further than its own validateTrigger call: it posts no reply, does
\* no fetch, and once over it has failed with the validation error unless the
\* version probe failed first.
C40_RunnersValidateExplicitMode ==
    /\ (InResolver /\ explicitMode /\ pc = "resolved") => ~Has("validateTrigger")
    /\ (InRunner /\ EnteredTry /\ TriggerMismatch) =>
          /\ pc \in {"start", "assert", "validate", "catch", "finally", "cleanup", "done"}
          /\ ~Has("announce")
          /\ replyCommentId = 0
          /\ \A f \in FetchNames : fetch[f] = "idle"
          /\ pc = "done" =>
                /\ outcome = "raised"
                /\ Len(failed) >= 1
                /\ failed[1].step \in {"assert", "validate"}
                /\ failed[1].step = "validate" =>
                      failed[1].error = validateTrigger(config.content, config.mode)

W_C40_MismatchedCommentFailsValidation ==
    /\ InRunner
    /\ config.mode = "command"
    /\ HasReviewKeyword(config.content)
    /\ pc = "done"
    /\ outcome = "raised"
    /\ Len(failed) >= 1
    /\ failed[1].step = "validate"

\* C38: getUserPrompt, given the thread and a comment whose text validateTrigger
\* accepts for command mode, returns a prompt and throws nothing.
C38_AcceptedCommentsBecomePrompts ==
    (/\ Returned("getUserPrompt")
     /\ call.args[1] /\ call.args[2]
     /\ validateTrigger(call.args[3], "command") = "ok")
        => (ret[1] = "" /\ ret[2] # "")

\* the texts that embed the access credential
CredentialTexts == { execFailure(cloneCommand(pat)), cloneCommand(pat), pat }

\* C37: no comment and no thread on the pull request holds a text that embeds
\* the access credential, at any point of any run.
C37_NoCredentialInMessages ==
    InRunner =>
        /\ \A c \in prComments :
              \A i \in 1..Len(c.content) : c.content[i] \notin CredentialTexts
        /\ \A k \in 1..Len(prThreads) :
              \A i \in 1..Len(prThreads[k].content) :
                  prThreads[k].content[i] \notin CredentialTexts

\* the bytes of these lines, each ended by its newline, as one read would
\* deliver them
RECURSIVE AsOneChunk(_)
AsOneChunk(lines) ==
    IF lines = <<>> THEN <<>>
    ELSE Append(Head(lines), Newline) \o AsOneChunk(Tail(lines))

\* C39: what the reader has printed for the lines that arrived so far is what
\* it prints when the same lines arrive in a single read, however the reads
\* divided them.
C39_RenderingIgnoresChunking ==
    reader # "none" => rendered = processChunk(AsOneChunk(received), session)

\* the run is over and its teardown is complete
TornDown ==
    /\ pc = "done"
    /\ outcome \in {"returned", "raised"}
    /\ opencode => proc = "killed"
    /\ OwnsWorkspace => RemovalAttempted

\* a step of the runner that leaves it at the same statement
RunnerStays == pc' = pc /\ RunVars' # RunVars

\* C33: when every awaited call settles, every run ends with its teardown
\* complete, whatever the event reader does; the connection wait makes at most
\* CONNECTION_MAX_RETRIES attempts, and the only steps that leave the runner
\* at the same statement are a failed connection attempt and the settling of
\* one of the joined requests.
C33_EveryRunTerminates ==
    /\ <>TornDown
    /\ [](attempt <= CONNECTION_MAX_RETRIES)
    /\ [][RunnerStays => \/ pc = "connect" /\ attempt' = attempt + 1
                         \/ fetch' # fetch]_vars

W_C33_EndedWhileReaderReads ==
    /\ TornDown
    /\ reader = "reading"
    /\ Has("connected")
====
